---- MODULE Spec2Model ----
(***************************************************************************)
(* Rent-reclaim bot: the Reclaim Engine (src/reclaim/engine.rs), the RPC   *)
(* client's transaction submission (src/solana/client.rs), the Eligibility *)
(* Classifier (src/reclaim/eligibility.rs) and the classify stage of the   *)
(* automated loop (src/main.rs).                                           *)
(*                                                                         *)
(* Account data is a byte vector in the code.  Here it is a record of the  *)
(* fields the code reads at fixed offsets of the token-account layout:     *)
(*   owner     bytes 32..64      amount    bytes 64..72 (8 bytes, LE)      *)
(*   state     byte 108          closeFlag byte 129                        *)
(*   closeAuth bytes 130..162    rest      1 iff some other byte is not 0  *)
(* together with len, the length of the vector.  A 32-byte key is one      *)
(* value of Keys; ZeroKey is the key whose 32 bytes are all zero.          *)
(***************************************************************************)
EXTENDS Integers, Sequences, FiniteSets, TLC

\* ------------------------------------------------------------------ bounds
MaxLamports == 2
MaxDays == 1
MaxWindowDays == 1
MaxPages == 2
MaxSlot == 5
MaxBatchSize == 2
MaxCreations == 3
MaxCallers == 2
MaxDelay == 2
MaxClock == 4
MaxReturns == 3

\* ------------------------------------------------------- program constants
TokenAccountLen == 165
FrozenState == 2
CloseAuthSet == 1
MAX_RETRIES == 3
BATCH_SIZE == 1000
ATA_RENT_EXEMPTION == 2039280
ATA_SIZE == 165
EstimateEpoch == 1600000000
SlotMillis == 400
MillisPerSecond == 1000
Tolerance == 5000
ProbeTolerance == 5000
LikelyAccounts == 5

\* ------------------------------------------------------------ value spaces
ZeroKey == "K0"
Keys == {"K1", "K2"}
Addrs == {"A1", "A2"}
Sigs == {"S1", "S2"}
NoSig == "NoSig"

SystemProgram == "SystemProgram"
SplTokenProgram == "SplTokenProgram"
CustomProgram == "CustomProgram"
Programs == {SystemProgram, SplTokenProgram, CustomProgram}

\* kora::types::AccountType
AccountTypes ==
    { [tag |-> "System", program |-> SystemProgram],
      [tag |-> "SplToken", program |-> SplTokenProgram],
      [tag |-> "Other", program |-> CustomProgram] }

\* 8-byte little-endian amount fields: zero, low byte set, high byte set
AmountSamples ==
    { <<0, 0, 0, 0, 0, 0, 0, 0>>,
      <<1, 0, 0, 0, 0, 0, 0, 0>>,
      <<0, 0, 0, 0, 0, 0, 0, 1>> }

FieldData(n, o, a, s, f, c, r) ==
    [len |-> n, owner |-> o, amount |-> a, state |-> s,
     closeFlag |-> f, closeAuth |-> c, rest |-> r]

\* every byte zero, n bytes long
ZeroData(n) == FieldData(n, ZeroKey, <<0, 0, 0, 0, 0, 0, 0, 0>>, 0, 0, ZeroKey, 0)

\* a vector too short to hold the token layout, zero or not
ShortData(n, r) == FieldData(n, ZeroKey, <<0, 0, 0, 0, 0, 0, 0, 0>>, 0, 0, ZeroKey, r)

DataSamples ==
    { ZeroData(0), ShortData(TokenAccountLen - 1, 1) }
    \cup { ZeroData(n) : n \in {TokenAccountLen, TokenAccountLen + 1} }
    \cup { FieldData(n, o, a, s, f, c, 1) :
             n \in {TokenAccountLen, TokenAccountLen + 1},
             o \in Keys, a \in AmountSamples, s \in {1, 2},
             f \in {0, 1, 2}, c \in Keys }

\* solana_sdk::account::Account as returned by the RPC gateway
AccountSamples ==
    { [lamports |-> l, owner |-> p, data |-> d] :
        l \in 0..MaxLamports, p \in Programs, d \in DataSamples }

NoAccount == [lamports |-> 0, owner |-> SystemProgram, data |-> ZeroData(0)]

\* outcomes of SolanaRpcClient::get_account: Err(e), Ok(None), Ok(Some(acc))
GetAccountResponses ==
    { [kind |-> "err", acc |-> NoAccount], [kind |-> "none", acc |-> NoAccount] }
    \cup { [kind |-> "some", acc |-> a] : a \in AccountSamples }

\* u64::from_le_bytes. A u64 does not fit the integers of TLC, so the value
\* is kept as its base-256 numeral, most significant digit first: the bytes
\* in reverse order.
FromLeBytes(bytes) ==
    [i \in 1..Len(bytes) |-> bytes[Len(bytes) + 1 - i]]

\* token_amount > 0 on such a numeral
U64Positive(num) == \E i \in 1..Len(num) : num[i] > 0

\* --------------------------------------------------------------- results
NoInstruction == [program |-> "none", account |-> "none",
                  destination |-> "none", authority |-> "none"]

OkResult(sig, amt, acct, dry) ==
    [ok |-> TRUE, err |-> "none", signature |-> sig,
     amount_reclaimed |-> amt, account |-> acct, dry_run |-> dry]

ErrResult(e) ==
    [ok |-> FALSE, err |-> e, signature |-> NoSig,
     amount_reclaimed |-> 0, account |-> "none", dry_run |-> FALSE]

NoResult == ErrResult("pending")

\* one remote call or sleep: n is the seconds slept, or 1 for a confirmed send
LogEntry(op, n, sig) == [op |-> op, n |-> n, sig |-> sig]

VARIABLES
    operator_pubkey,   \* config.kora.operator_pubkey
    signer,            \* ReclaimEngine.signer (pubkey of the treasury keypair)
    treasury_wallet,   \* ReclaimEngine.treasury_wallet
    dry_run,           \* ReclaimEngine.dry_run
    pc,                \* position of reclaim_account
    account_pubkey,    \* argument of reclaim_account
    account_type,      \* argument of reclaim_account
    fetched,           \* response of get_account in this call
    instruction,       \* instruction built by build_close_instruction
    attempt,           \* loop variable of send_and_confirm_transaction
    last_error,        \* last_error of send_and_confirm_transaction
    result,            \* value returned by reclaim_account
    rpc_log,           \* remote calls and sleeps of this call, in order
    whitelist,         \* config.reclaim.whitelist
    blacklist,         \* config.reclaim.blacklist
    min_inactive_days, \* config.reclaim.min_inactive_days
    e_pc,              \* position of is_eligible
    check,             \* the is_eligible call: arguments, answers, result
    a_pc,              \* stage of the cycle of run_auto_service
    sponsored_accounts,\* the accounts the scan of this cycle returned
    idx,               \* position of the classify loop in sponsored_accounts
    eligible,          \* the list `eligible` of the cycle
    handed,            \* the list given to reclaim_all_eligible in this cycle
    answer,            \* the last is_eligible call of the loop and its answer
    db_status,         \* sponsored_accounts.status in the store, per address
    history,           \* the fee payer's transaction history, newest first
    max_signatures,    \* argument of discover_from_signatures / _incremental
    since_signature,   \* argument of discover_incremental (0: the full scan)
    d_pc,              \* position of the discovery run
    d_run,             \* 1 for the first run over the history, 2 for the second
    total_fetched,     \* total_fetched of the run
    before_signature,  \* before_signature of the run (0: None)
    seen_accounts,     \* seen_accounts of the run
    all_sponsored,     \* all_sponsored of the run
    requests,          \* the page requests of the run, in order
    d_result,          \* what the run returned
    d_first,           \* what the first run over this history returned
    db_accounts,       \* the accounts the scan stored, one record per address
    s_pc,              \* position of determine_reclaim_strategy
    strategy,          \* the determine_reclaim_strategy call: answer and result
    b_pc,              \* position of process_batch
    chain,             \* the remote state of each address of the batch
    accounts,          \* argument of process_batch
    batch_size,        \* BatchProcessor.batch_size
    b_idx,             \* how many accounts process_batch has gone through
    chunk_results,     \* the results batch_reclaim collected for this chunk
    summary,           \* the BatchSummary being built
    b_log,             \* the waits, engine calls, submissions and sleeps of the run
    stages,            \* the stages the cycle of run_auto_service has gone through
    t_pc,              \* position of check_for_passive_reclaims
    t_db,              \* sponsored_accounts in the store, latest closed_at first
    last_balance,      \* the treasury_balance checkpoint of the store
    t_call,            \* the check_for_passive_reclaims call: what it read and probed
    t_result,          \* what check_for_passive_reclaims returned
    m_pc,              \* position of match_amount_to_accounts
    m_in,              \* arguments of match_amount_to_accounts
    m_out,             \* what match_amount_to_accounts returned
    t_own,             \* lamports the batch processor moved into the treasury since the last check
    c_chain,           \* the operator's signature history on the chain
    c_checkpoint,      \* the last_signature and last_slot checkpoints of the store
    c_status,          \* the status the store holds for each address
    c_ripe,            \* the addresses that satisfy every condition of is_eligible
    c_handed,          \* the addresses given to the batch processor so far
    c_pc,              \* position of the automated cycle
    c_found,           \* what the scan of the automated cycle returned
    h_pc,              \* position of the chat bot's scan command
    h_found,           \* what the scan of the chat bot returned
    c_base,            \* the first cursor stored since the checkpoints were last empty
    c_fetched,         \* the creating signatures a scan has fetched since then
    clock,             \* std::time::Instant::now(), in units of time
    delay,             \* RateLimiter.delay
    last_call,         \* RateLimiter.last_call
    w_pc,              \* position of each caller of RateLimiter::wait
    remaining,         \* `remaining` of each caller of wait
    slept_from,        \* when the sleep of each caller of wait began
    returns            \* the instants at which calls of wait returned, in order

vars == <<operator_pubkey, signer, treasury_wallet, dry_run, pc, account_pubkey,
          account_type, fetched, instruction, attempt, last_error, result, rpc_log,
          whitelist, blacklist, min_inactive_days, e_pc, check,
          a_pc, sponsored_accounts, idx, eligible, handed, answer, db_status,
          history, max_signatures, since_signature, d_pc, d_run, total_fetched,
          before_signature, seen_accounts, all_sponsored, requests, d_result,
          d_first, db_accounts, s_pc, strategy, b_pc, chain, accounts, batch_size, b_idx,
          chunk_results, summary, b_log, stages, t_pc, t_db, last_balance, t_call,
          t_result, m_pc, m_in, m_out, t_own, c_chain, c_checkpoint, c_status,
          c_ripe, c_handed, c_pc, c_found, h_pc, h_found, c_base, c_fetched,
          clock, delay, last_call, w_pc, remaining, slept_from, returns>>

autoVars == <<a_pc, sponsored_accounts, idx, eligible, handed, answer, db_status, stages>>

engineVars == <<pc, account_pubkey, account_type, fetched, instruction, attempt,
                last_error, result, rpc_log>>

eligVars == <<e_pc, check>>

cfgVars == <<operator_pubkey, signer, treasury_wallet, dry_run, whitelist,
             blacklist, min_inactive_days>>

discVars == <<history, max_signatures, since_signature, d_pc, d_run, total_fetched,
              before_signature, seen_accounts, all_sponsored, requests, d_result,
              d_first, db_accounts>>

stratVars == <<s_pc, strategy>>

batchVars == <<b_pc, chain, accounts, batch_size, b_idx, chunk_results, summary, b_log>>

treasVars == <<t_pc, t_db, last_balance, t_call, t_result, m_pc, m_in, m_out, t_own>>

\* what the engine, the classifier and the loop never touch
cycleVars == <<c_chain, c_checkpoint, c_status, c_ripe, c_handed, c_pc, c_found,
               h_pc, h_found, c_base, c_fetched>>

limiterVars == <<clock, delay, last_call, w_pc, remaining, slept_from, returns>>

otherVars == <<discVars, stratVars, batchVars, treasVars, cycleVars, limiterVars>>

\* ------------------------------------------------ Eligibility Classifier
\* eligibility.rs 213-249, with the operator key the configuration holds
has_close_authority(account, operator) ==
    IF account.data.len < TokenAccountLen THEN FALSE
    ELSE IF account.data.closeFlag = CloseAuthSet
         THEN account.data.closeAuth = operator
         ELSE account.data.owner = operator

\* chrono::Duration::days
DurationDays(n) == n * 86400

\* instants in seconds: day boundaries and the second after each
Times == {d * 86400 + o : d \in 0..MaxDays, o \in {0, 1}}

\* the configuration an EligibilityChecker holds
EligConfig(wl, bl, days, operator) ==
    [whitelist |-> wl, blacklist |-> bl, min_inactive_days |-> days,
     operator |-> operator]

\* eligibility.rs 279-283
is_whitelisted(cfg, pubkey) == \E addr \in cfg.whitelist : addr = pubkey

\* faulty variant: the deny-list check reads the allow-list
is_blacklisted_WrongList(cfg, pubkey) == \E addr \in cfg.whitelist : addr = pubkey

\* eligibility.rs 285-289
is_blacklisted(cfg, pubkey) == \E addr \in cfg.blacklist : addr = pubkey

\* eligibility.rs 110-118
determine_account_type(account) ==
    IF account.owner = SplTokenProgram /\ account.data.len = TokenAccountLen
    THEN [tag |-> "SplToken", program |-> SplTokenProgram]
    ELSE IF account.owner = SystemProgram
    THEN [tag |-> "System", program |-> SystemProgram]
    ELSE [tag |-> "Other", program |-> account.owner]

\* faulty variant: System accounts taken as reclaimable
is_reclaimable_type_System(type) ==
    CASE type.tag = "System" -> TRUE
      [] type.tag = "SplToken" -> TRUE
      [] type.tag = "Other" -> FALSE

\* eligibility.rs 120-126
is_reclaimable_type(type) ==
    CASE type.tag = "System" -> FALSE
      [] type.tag = "SplToken" -> TRUE
      [] type.tag = "Other" -> FALSE

\* rent.rs 36-40: data.iter().all(|&b| b == 0) on the fields of the layout
AllZero(data) ==
    /\ data.rest = 0
    /\ data.owner = ZeroKey
    /\ ~U64Positive(FromLeBytes(data.amount))
    /\ data.state = 0
    /\ data.closeFlag = 0
    /\ data.closeAuth = ZeroKey

\* rent.rs 36-40
is_empty_account(account, minimum_balance) ==
    \/ account.data.len = 0
    \/ (account.lamports <= minimum_balance /\ AllZero(account.data))

\* responses of get_signatures_for_address(address, None, None, 1): an error,
\* an empty page, or the newest signature with or without a block time
SigResponse(kind, t) == [kind |-> kind, t |-> t]

\* accounts.rs 467-485: "err", or the Option as [some, t]
get_last_transaction_time(sigs) ==
    IF sigs.kind = "err" THEN [ok |-> FALSE, some |-> FALSE, t |-> 0]
    ELSE IF sigs.kind = "sig_with_time" THEN [ok |-> TRUE, some |-> TRUE, t |-> sigs.t]
    ELSE [ok |-> TRUE, some |-> FALSE, t |-> 0]

\* faulty variant: the last activity is fetched but its age is not compared
check_inactivity_AgeIgnored(cfg, sigs, now2) ==
    LET last == get_last_transaction_time(sigs)
    IN  IF ~last.ok THEN FALSE ELSE TRUE

\* faulty variant: the comparison of the age of the last activity is reversed
check_inactivity_Reversed(cfg, sigs, now2) ==
    LET last == get_last_transaction_time(sigs)
    IN  IF ~last.ok THEN FALSE
        ELSE IF last.some THEN now2 - last.t < DurationDays(cfg.min_inactive_days)
        ELSE TRUE

\* eligibility.rs 251-277, followed by the caller's unwrap_or(false) (line 74)
check_inactivity(cfg, sigs, now2) ==
    LET last == get_last_transaction_time(sigs)
    IN  IF ~last.ok THEN FALSE
        ELSE IF last.some THEN now2 - last.t > DurationDays(cfg.min_inactive_days)
        ELSE TRUE

\* eligibility.rs 25-63: the list checks, the account fetch, the type and
\* authority checks; "pass" when is_eligible goes on to the time checks
AccountStage(cfg, pubkey, resp) ==
    IF is_whitelisted(cfg, pubkey) THEN "false"
    ELSE IF is_blacklisted(cfg, pubkey) THEN "false"
    ELSE IF resp.kind = "err" THEN "err"
    ELSE IF resp.kind = "none" THEN "false"
    ELSE IF resp.acc.lamports = 0 THEN "false"
    ELSE IF ~is_reclaimable_type(determine_account_type(resp.acc)) THEN "false"
    ELSE IF determine_account_type(resp.acc).tag = "SplToken"
            /\ ~has_close_authority(resp.acc, cfg.operator)
         THEN "false"
    ELSE "pass"

\* eligibility.rs 65-71
CreationStage(cfg, created_at, now) ==
    IF now - created_at < DurationDays(cfg.min_inactive_days) THEN "false" ELSE "pass"

\* eligibility.rs 73-78
ActivityStage(cfg, sigs, now2) ==
    IF ~check_inactivity(cfg, sigs, now2) THEN "false" ELSE "pass"

\* eligibility.rs 80-95
BalanceStage(account, minbal) ==
    IF minbal.kind = "err" THEN "err"
    ELSE IF is_empty_account(account, minbal.v) THEN "true"
    ELSE IF account.lamports <= minbal.v * 2 THEN "true"
    ELSE "false"

\* what the remote side and the clock answer during one is_eligible call, in
\* call order; a call that is not made has the answer NotCalled
NotCalledTime == 0 - 1
NotCalledSigs == SigResponse("not_called", 0)
NotCalledMinBal == [kind |-> "not_called", v |-> 0]
NotCalledAccount == [kind |-> "not_called", acc |-> NoAccount]

EligEnv(acct, now, sigs, now2, minbal) ==
    [acct |-> acct, now |-> now, sigs |-> sigs, now2 |-> now2, minbal |-> minbal]

\* eligibility.rs 23-96
is_eligible(cfg, pubkey, created_at, env) ==
    LET s1 == AccountStage(cfg, pubkey, env.acct)
    IN  IF s1 # "pass" THEN s1
        ELSE IF CreationStage(cfg, created_at, env.now) # "pass" THEN "false"
        ELSE IF ActivityStage(cfg, env.sigs, env.now2) # "pass" THEN "false"
        ELSE BalanceStage(env.acct.acc, env.minbal)

\* the accounts the classifier is run on: the token amount and state bytes,
\* which it never reads, are zero and initialised
EligAccountResponses ==
    {r \in GetAccountResponses :
        /\ ~U64Positive(FromLeBytes(r.acc.data.amount))
        /\ r.acc.data.state # FrozenState}

SigResponses ==
    { SigResponse("err", 0), SigResponse("empty", 0), SigResponse("sig_no_time", 0) }
    \cup { SigResponse("sig_with_time", t) : t \in Times }

MinBalResponses ==
    { [kind |-> "err", v |-> 0] } \cup { [kind |-> "ok", v |-> m] : m \in 0..MaxLamports }

\* the answers one call can receive: each call is made only if the code
\* reaches it, and the clock does not go back between the two readings
EnvsAfterActivity(cfg, r, now, sigs, now2) ==
    IF ActivityStage(cfg, sigs, now2) # "pass"
    THEN { EligEnv(r, now, sigs, now2, NotCalledMinBal) }
    ELSE { EligEnv(r, now, sigs, now2, m) : m \in MinBalResponses }

EnvsAfterCreation(cfg, created_at, r, now) ==
    IF CreationStage(cfg, created_at, now) # "pass"
    THEN { EligEnv(r, now, NotCalledSigs, NotCalledTime, NotCalledMinBal) }
    ELSE UNION { IF sigs.kind = "sig_with_time"
                 THEN UNION { EnvsAfterActivity(cfg, r, now, sigs, now2) :
                                now2 \in {now, now + 1} }
                 ELSE EnvsAfterActivity(cfg, r, now, sigs, NotCalledTime) :
                 sigs \in SigResponses }

EnvsAfterAccount(cfg, pubkey, created_at, r) ==
    IF AccountStage(cfg, pubkey, r) # "pass"
    THEN { EligEnv(r, NotCalledTime, NotCalledSigs, NotCalledTime, NotCalledMinBal) }
    ELSE UNION { EnvsAfterCreation(cfg, created_at, r, now) : now \in Times }

EligEnvs(cfg, pubkey, created_at) ==
    IF is_whitelisted(cfg, pubkey) \/ is_blacklisted(cfg, pubkey)
    THEN { EligEnv(NotCalledAccount, NotCalledTime, NotCalledSigs, NotCalledTime,
                   NotCalledMinBal) }
    ELSE UNION { EnvsAfterAccount(cfg, pubkey, created_at, r) :
                   r \in EligAccountResponses }

\* a reason string as its first word and the rest of it; <<>> for no string
Reason(first, rest) == <<first, rest>>
ReasonErr == <<"Err">>

\* faulty variant: an account that is not empty is never reported eligible
ReasonForBalance_EmptyOnly(account, minbal) ==
    IF minbal.kind = "err" THEN ReasonErr
    ELSE IF is_empty_account(account, minbal.v)
    THEN Reason("Eligible", "for reclaim: empty account")
    ELSE Reason("Not", "eligible: account has significant data/balance")

\* eligibility.rs 339-362
ReasonForBalance(account, minbal) ==
    IF minbal.kind = "err" THEN ReasonErr
    ELSE IF is_empty_account(account, minbal.v)
    THEN Reason("Eligible", "for reclaim: empty account")
    ELSE IF account.lamports <= minbal.v * 2
    THEN Reason("Eligible", "for reclaim: minimal balance")
    ELSE Reason("Not", "eligible: account has significant data/balance")

\* eligibility.rs 291-363
get_eligibility_reason(cfg, pubkey, created_at, env) ==
    LET account == env.acct.acc
        type == determine_account_type(account)
        min_inactive == DurationDays(cfg.min_inactive_days)
        age == env.now - created_at
    IN  IF is_whitelisted(cfg, pubkey)
        THEN Reason("Account", "is whitelisted (protected)")
        ELSE IF is_blacklisted(cfg, pubkey)
        THEN Reason("Account", "is blacklisted (excluded)")
        ELSE IF env.acct.kind = "err" THEN ReasonErr
        ELSE IF env.acct.kind = "none"
        THEN Reason("Account", "is closed (nothing to reclaim)")
        ELSE IF account.lamports = 0
        THEN Reason("Account", "has zero balance (nothing to reclaim)")
        ELSE IF ~is_reclaimable_type(type)
        THEN Reason("Account", "type cannot be reclaimed")
        ELSE IF type.tag = "SplToken" /\ ~has_close_authority(account, cfg.operator)
        THEN Reason("Operator", "is not the close authority for this SPL Token account")
        ELSE IF age < min_inactive
        THEN Reason("Account", "needs more days of inactivity")
        ELSE IF ~check_inactivity(cfg, env.sigs, env.now2)
        THEN Reason("Account", "has recent activity")
        ELSE ReasonForBalance(account, env.minbal)

NoCheck == [pubkey |-> "none", created_at |-> 0,
            env |-> EligEnv(NotCalledAccount, NotCalledTime, NotCalledSigs,
                            NotCalledTime, NotCalledMinBal),
            result |-> "pending", reason |-> <<>>]

\* ------------------------------------------------------- Reclaim Engine
\* engine.rs 131-183: the operator check of reclaim_account on fresh bytes
EngineAuthorityOk(data, key) ==
    IF data.closeFlag = CloseAuthSet
    THEN data.closeAuth = key
    ELSE data.owner = key

\* faulty variant: the frozen-state check left out
SplTokenPrecheck_SkipFrozen(data, key) ==
    IF data.len < TokenAccountLen THEN "NotEligible"
    ELSE IF U64Positive(FromLeBytes(data.amount)) THEN "NotEligible"
    ELSE IF ~EngineAuthorityOk(data, key) THEN "NotEligible"
    ELSE "ok"

\* engine.rs 87-184: the SplToken preconditions; "ok" or the NotEligible raised
SplTokenPrecheck(data, key) ==
    IF data.len < TokenAccountLen THEN "NotEligible"
    ELSE IF U64Positive(FromLeBytes(data.amount)) THEN "NotEligible"
    ELSE IF data.state = FrozenState THEN "NotEligible"
    ELSE IF ~EngineAuthorityOk(data, key) THEN "NotEligible"
    ELSE "ok"

\* faulty variant: a System account closed by a transfer to the treasury
build_close_instruction_SystemTransfer(pubkey, type, treasury, key) ==
    CASE type.tag = "System" ->
            [ok |-> TRUE,
             ins |-> [program |-> SystemProgram, account |-> pubkey,
                      destination |-> treasury, authority |-> key]]
      [] type.tag = "SplToken" ->
            [ok |-> TRUE,
             ins |-> [program |-> SplTokenProgram, account |-> pubkey,
                      destination |-> treasury, authority |-> key]]
      [] type.tag = "Other" -> [ok |-> FALSE, ins |-> NoInstruction]

\* engine.rs 226-280
build_close_instruction(pubkey, type, treasury, key) ==
    CASE type.tag = "System" -> [ok |-> FALSE, ins |-> NoInstruction]
      [] type.tag = "SplToken" ->
            [ok |-> TRUE,
             ins |-> [program |-> SplTokenProgram, account |-> pubkey,
                      destination |-> treasury, authority |-> key]]
      [] type.tag = "Other" -> [ok |-> FALSE, ins |-> NoInstruction]

\* faulty variant: the dry-run return taken before the preconditions are checked
ReclaimPrecheck_DryRunEarly(pubkey, type, resp, treasury, key, dry) ==
    LET built == build_close_instruction(pubkey, type, treasury, key)
        ret(r) == [step |-> "return", res |-> r, ins |-> NoInstruction]
    IN  IF resp.kind = "err" THEN ret(ErrResult("SolanaRpc"))
        ELSE IF resp.kind = "none" THEN ret(OkResult(NoSig, 0, pubkey, dry))
        ELSE IF resp.acc.lamports = 0 THEN ret(ErrResult("NotEligible"))
        ELSE IF dry THEN ret(OkResult(NoSig, resp.acc.lamports, pubkey, TRUE))
        ELSE IF type.tag = "SplToken"
                /\ SplTokenPrecheck(resp.acc.data, key) # "ok"
             THEN ret(ErrResult("NotEligible"))
        ELSE IF ~built.ok THEN ret(ErrResult("NotEligible"))
        ELSE [step |-> "submit", res |-> NoResult, ins |-> built.ins]

\* faulty variant: a zero balance treated like an absent account
ReclaimPrecheck_ZeroBalanceOk(pubkey, type, resp, treasury, key, dry) ==
    LET built == build_close_instruction(pubkey, type, treasury, key)
        ret(r) == [step |-> "return", res |-> r, ins |-> NoInstruction]
    IN  IF resp.kind = "err" THEN ret(ErrResult("SolanaRpc"))
        ELSE IF resp.kind = "none" THEN ret(OkResult(NoSig, 0, pubkey, dry))
        ELSE IF resp.acc.lamports = 0 THEN ret(OkResult(NoSig, 0, pubkey, dry))
        ELSE IF type.tag = "SplToken"
                /\ SplTokenPrecheck(resp.acc.data, key) # "ok"
             THEN ret(ErrResult("NotEligible"))
        ELSE IF ~built.ok THEN ret(ErrResult("NotEligible"))
        ELSE IF dry THEN ret(OkResult(NoSig, resp.acc.lamports, pubkey, TRUE))
        ELSE [step |-> "submit", res |-> NoResult, ins |-> built.ins]

\* engine.rs 57-196: reclaim_account up to the dry-run return.
\* step = "return": the call returns res; step = "submit": it goes on to the
\* blockhash fetch with instruction ins.
ReclaimPrecheck(pubkey, type, resp, treasury, key, dry) ==
    LET built == build_close_instruction(pubkey, type, treasury, key)
        ret(r) == [step |-> "return", res |-> r, ins |-> NoInstruction]
    IN  IF resp.kind = "err" THEN ret(ErrResult("SolanaRpc"))
        ELSE IF resp.kind = "none" THEN ret(OkResult(NoSig, 0, pubkey, dry))
        ELSE IF resp.acc.lamports = 0 THEN ret(ErrResult("NotEligible"))
        ELSE IF type.tag = "SplToken"
                /\ SplTokenPrecheck(resp.acc.data, key) # "ok"
             THEN ret(ErrResult("NotEligible"))
        ELSE IF ~built.ok THEN ret(ErrResult("NotEligible"))
        ELSE IF dry THEN ret(OkResult(NoSig, resp.acc.lamports, pubkey, TRUE))
        ELSE [step |-> "submit", res |-> NoResult, ins |-> built.ins]

\* ------------------------------------------------------------- discovery
\* accounts.rs 283-464. An instruction of a jsonParsed transaction, reduced
\* to what the parser reads: its form, the program name, parsed.type, and the
\* one key of parsed.info that holds an address ("none": no such key, or no
\* info object at all), with info.lamports and info.space.
Instr(form, program, type, field, account, lamports, space) ==
    [form |-> form, program |-> program, type |-> type, field |-> field,
     account |-> account, lamports |-> lamports, space |-> space]

\* info.get(name).and_then(|v| v.as_str())
InfoStr(instr, name) == IF instr.field = name THEN instr.account ELSE "absent"

\* Pubkey::from_str succeeds on the addresses of the model only
PubkeyParses(str) == str \in Addrs \cup Keys \cup Programs

\* info_type.contains("create") || contains("initialize") || contains("init")
IsCreationType(type) ==
    type \in {"create", "createIdempotent", "createAccount",
              "createAccountWithSeed", "initializeAccount", "initializeMint"}

Found(pubkey, signature, slot, creation_time, balance, size, type) ==
    [kind |-> "some",
     info |-> [pubkey |-> pubkey, creation_signature |-> signature,
               creation_slot |-> slot, creation_time |-> creation_time,
               initial_balance |-> balance, data_size |-> size,
               account_type |-> type]]

NotFound == [kind |-> "none",
             info |-> [pubkey |-> "none", creation_signature |-> 0,
                       creation_slot |-> 0, creation_time |-> 0,
                       initial_balance |-> 0, data_size |-> 0,
                       account_type |-> [tag |-> "System", program |-> SystemProgram]]]

ParseFailed == [kind |-> "err", info |-> NotFound.info]

\* accounts.rs 302-337
parse_ata(instr, signature, slot, creation_time) ==
    IF instr.type \in {"create", "createIdempotent"} /\ InfoStr(instr, "account") # "absent"
    THEN IF PubkeyParses(InfoStr(instr, "account"))
         THEN Found(InfoStr(instr, "account"), signature, slot, creation_time,
                    ATA_RENT_EXEMPTION, ATA_SIZE,
                    [tag |-> "SplToken", program |-> SplTokenProgram])
         ELSE ParseFailed
    ELSE NotFound

\* accounts.rs 340-371; "fall" when the instruction is left to the later checks
parse_system(instr, signature, slot, creation_time) ==
    IF instr.type \in {"createAccount", "createAccountWithSeed"}
       /\ InfoStr(instr, "newAccount") # "absent"
    THEN IF PubkeyParses(InfoStr(instr, "newAccount"))
         THEN Found(InfoStr(instr, "newAccount"), signature, slot, creation_time,
                    instr.lamports, instr.space,
                    [tag |-> "System", program |-> SystemProgram])
         ELSE ParseFailed
    ELSE NotFound

\* accounts.rs 373-403: the balance is written as 0
parse_token_init(instr, signature, slot, creation_time) ==
    IF instr.type = "initializeAccount" /\ InfoStr(instr, "account") # "absent"
    THEN IF PubkeyParses(InfoStr(instr, "account"))
         THEN Found(InfoStr(instr, "account"), signature, slot, creation_time,
                    0, ATA_SIZE,
                    [tag |-> "SplToken", program |-> SplTokenProgram])
         ELSE ParseFailed
    ELSE NotFound

\* accounts.rs 407-455: an address that does not parse is passed over
parse_other(instr, signature, slot, creation_time) ==
    LET account_str ==
            IF InfoStr(instr, "account") # "absent" THEN InfoStr(instr, "account")
            ELSE IF InfoStr(instr, "newAccount") # "absent" THEN InfoStr(instr, "newAccount")
            ELSE InfoStr(instr, "address")
    IN  IF /\ IsCreationType(instr.type)
           /\ account_str # "absent"
           /\ PubkeyParses(account_str)
           /\ PubkeyParses(instr.program)
        THEN Found(account_str, signature, slot, creation_time,
                   instr.lamports, instr.space,
                   [tag |-> "Other", program |-> instr.program])
        ELSE NotFound

\* accounts.rs 283-464
parse_instruction_for_creation(instr, signature, slot, creation_time) ==
    IF instr.form # "parsed" THEN NotFound
    ELSE IF instr.program = "spl-associated-token-account"
         THEN parse_ata(instr, signature, slot, creation_time)
    ELSE IF instr.program = "system"
         THEN parse_system(instr, signature, slot, creation_time)
    ELSE IF instr.program = "spl-token"
         THEN parse_token_init(instr, signature, slot, creation_time)
    ELSE parse_other(instr, signature, slot, creation_time)

\* tx.block_time: Option<i64>; representable is whether
\* DateTime::from_timestamp accepts the value
BlockTime(kind, v, representable) ==
    [kind |-> kind, v |-> v, representable |-> representable]

\* faulty variant: the milliseconds are not turned into seconds
EstimateFromSlot_NoDivision(slot) == EstimateEpoch + slot * SlotMillis

\* accounts.rs 229-231, 236-238. The slots of the model are far below the ones
\* at which slot * 400 leaves the range of an i64.
EstimateFromSlot(slot) == EstimateEpoch + (slot * SlotMillis) \div MillisPerSecond

\* accounts.rs 219-239
CreationTime(slot, block_time) ==
    LET bt == IF block_time.kind = "some" THEN block_time.v ELSE 0
    IN  IF bt > 0 /\ block_time.representable THEN bt ELSE EstimateFromSlot(slot)

\* One entry of get_signatures_for_address together with what get_transaction
\* answers for it: sig_err is sig_info.err.is_some(), sig_ok whether the
\* signature string parses, fetch the outcome of get_transaction, encoding
\* and message the shape of the transaction, keys_ok whether every account
\* key of the message parses.
Tx(sig_err, sig_ok, fetch, slot, block_time, encoding, message, keys_ok, instructions) ==
    [sig_err |-> sig_err, sig_ok |-> sig_ok, fetch |-> fetch, slot |-> slot,
     block_time |-> block_time, encoding |-> encoding, message |-> message,
     keys_ok |-> keys_ok, instructions |-> instructions]

\* accounts.rs 250-261: the instructions in order, stopping at the first error
RECURSIVE ParseInstructions(_, _, _, _, _)
ParseInstructions(instructions, i, signature, slot, creation_time) ==
    IF i > Len(instructions) THEN [ok |-> TRUE, creations |-> <<>>]
    ELSE LET r == parse_instruction_for_creation(instructions[i], signature,
                                                 slot, creation_time)
             rest == ParseInstructions(instructions, i + 1, signature, slot,
                                       creation_time)
         IN  IF r.kind = "err" THEN [ok |-> FALSE, creations |-> <<>>]
             ELSE IF ~rest.ok THEN rest
             ELSE IF r.kind = "some"
                  THEN [ok |-> TRUE, creations |-> <<r.info>> \o rest.creations]
             ELSE rest

\* accounts.rs 212-264
parse_transaction_for_creations(tx, signature) ==
    LET creation_time == CreationTime(tx.slot, tx.block_time)
    IN  IF tx.encoding # "json" THEN [ok |-> TRUE, creations |-> <<>>]
        ELSE IF ~tx.keys_ok THEN [ok |-> FALSE, creations |-> <<>>]
        ELSE IF tx.message # "parsed" THEN [ok |-> TRUE, creations |-> <<>>]
        ELSE ParseInstructions(tx.instructions, 1, signature, tx.slot, creation_time)

\* accounts.rs 111-115: only the accounts not seen before are added
\* faulty variant: a later creation replaces the record of an earlier one
RECURSIVE AddUnseen_KeepLast(_, _, _, _)
AddUnseen_KeepLast(creations, i, seen, all) ==
    IF i > Len(creations) THEN [seen |-> seen, all |-> all]
    ELSE LET c == creations[i]
             kept == SelectSeq(all, LAMBDA x : x.pubkey # c.pubkey)
         IN  AddUnseen_KeepLast(creations, i + 1, seen \cup {c.pubkey}, Append(kept, c))

RECURSIVE AddUnseen(_, _, _, _)
AddUnseen(creations, i, seen, all) ==
    IF i > Len(creations) THEN [seen |-> seen, all |-> all]
    ELSE LET c == creations[i]
         IN  IF c.pubkey \in seen
             THEN AddUnseen(creations, i + 1, seen, all)
             ELSE AddUnseen(creations, i + 1, seen \cup {c.pubkey}, Append(all, c))

\* accounts.rs 97-117, one signature of the page: st is [ok, seen, all]
ProcessSignature(st, entry) ==
    LET tx == entry.tx
        parsed == parse_transaction_for_creations(tx, entry.pos)
    IN  IF tx.sig_err THEN st
        ELSE IF ~tx.sig_ok THEN [st EXCEPT !.ok = FALSE]
        ELSE IF tx.fetch = "err" THEN [st EXCEPT !.ok = FALSE]
        ELSE IF tx.fetch = "none" THEN st
        ELSE IF ~parsed.ok THEN [st EXCEPT !.ok = FALSE]
        ELSE LET added == AddUnseen(parsed.creations, 1, st.seen, st.all)
             IN  [ok |-> TRUE, seen |-> added.seen, all |-> added.all]

\* faulty variant: the last signature of the page is passed over
Marked_DropLast(h, first, last) ==
    SelectSeq(h.marked, LAMBDA e : e.pos >= first /\ e.pos < last)

\* the history lists only the transactions with something in them, by
\* position (1 is the newest); every other position holds a successful
\* transaction without a creation instruction
Marked(h, first, last) ==
    SelectSeq(h.marked, LAMBDA e : e.pos >= first /\ e.pos <= last)

\* accounts.rs 97-117, the signatures of one page in order
RECURSIVE ProcessPage(_, _, _)
ProcessPage(entries, i, st) ==
    IF i > Len(entries) \/ ~st.ok THEN st
    ELSE \* the state after this signature, computed once
         CHOOSE r \in { ProcessPage(entries, i + 1, s) :
                         s \in {ProcessSignature(st, entries[i])} } : TRUE

Min(a, b) == IF a < b THEN a ELSE b

\* getSignaturesForAddress(before, until, limit): the positions it returns,
\* as [first, last]; the page is empty when last < first
SignaturePage(h, before, until, limit) ==
    LET stop == IF until = 0 \/ until > h.len THEN h.len ELSE until - 1
    IN  [first |-> before + 1, last |-> Min(before + limit, stop)]

\* accounts.rs 122-124: the last signature of the page has to parse
LastSignatureOk(h, last) ==
    \A i \in DOMAIN h.marked : h.marked[i].pos = last => h.marked[i].tx.sig_ok

\* faulty variant: every page asks for a full batch
PageLimit_Fixed(max, so_far) == BATCH_SIZE

\* accounts.rs 78
PageLimit(max, so_far) == Min(BATCH_SIZE, max - so_far)

NoHistory == [len |-> 0, marked |-> <<>>]

OkAccounts(all) == [kind |-> "ok", accounts |-> all]
ErrAccounts == [kind |-> "err", accounts |-> <<>>]
NoAccounts == [kind |-> "pending", accounts |-> <<>>]

\* ---- the histories the runs are checked on
AtaCreate(a) == Instr("parsed", "spl-associated-token-account", "create",
                      "account", a, 0, 0)
SystemCreate(a) == Instr("parsed", "system", "createAccount", "newAccount", a, 1, 0)
TokenInit(a) == Instr("parsed", "spl-token", "initializeAccount", "account", a, 0, 0)
OtherCreate(a) == Instr("parsed", CustomProgram, "initializeMint", "address", a, 2, 1)

CreationInstrs ==
    { AtaCreate("A1"), SystemCreate("A1"), TokenInit("A2"), OtherCreate("A2") }

InstrSamples ==
    CreationInstrs
    \cup { AtaCreate("malformed"),
           OtherCreate("malformed"),
           Instr("parsed", "system", "transfer", "none", "absent", 1, 0),
           Instr("parsed", "stake", "initialize", "account", "A2", 0, 0),
           Instr("partial", "system", "createAccount", "newAccount", "A1", 1, 0) }

InstrSeqs ==
    { <<>> } \cup { <<i>> : i \in InstrSamples }
    \cup { <<i, j>> : i \in {AtaCreate("A1"), SystemCreate("A1"), TokenInit("A2"),
                             AtaCreate("malformed")},
                      j \in CreationInstrs }

BlockTimeSample == 1700000000
NoBlockTime == BlockTime("none", 0, TRUE)

PlainTx(slot, block_time, instructions) ==
    Tx(FALSE, TRUE, "some", slot, block_time, "json", "parsed", TRUE, instructions)

TxSamples ==
    { PlainTx(3, NoBlockTime, s) : s \in InstrSeqs }
    \cup { PlainTx(sl, bt, <<i>>) :
             sl \in {0, MaxSlot},
             bt \in { NoBlockTime, BlockTime("some", 0, TRUE),
                      BlockTime("some", BlockTimeSample, TRUE),
                      BlockTime("some", BlockTimeSample, FALSE) },
             i \in {TokenInit("A2")} }
    \cup { Tx(TRUE, TRUE, "some", 3, NoBlockTime, "json", "parsed", TRUE, <<SystemCreate("A2")>>),
           Tx(TRUE, FALSE, "some", 3, NoBlockTime, "json", "parsed", TRUE, <<SystemCreate("A2")>>),
           Tx(FALSE, FALSE, "some", 3, NoBlockTime, "json", "parsed", TRUE, <<SystemCreate("A2")>>),
           Tx(FALSE, TRUE, "err", 3, NoBlockTime, "json", "parsed", TRUE, <<SystemCreate("A2")>>),
           Tx(FALSE, TRUE, "none", 3, NoBlockTime, "json", "parsed", TRUE, <<SystemCreate("A2")>>),
           Tx(FALSE, TRUE, "some", 3, NoBlockTime, "binary", "parsed", TRUE, <<SystemCreate("A2")>>),
           Tx(FALSE, TRUE, "some", 3, NoBlockTime, "json", "raw", TRUE, <<SystemCreate("A2")>>),
           Tx(FALSE, TRUE, "some", 3, NoBlockTime, "json", "parsed", FALSE, <<SystemCreate("A2")>>) }

\* two transactions with something in them, the newest and the oldest of
\* the history
RichHistories ==
    { [len |-> n, marked |-> <<[pos |-> 1, tx |-> a], [pos |-> n, tx |-> b]>>] :
        n \in {2, BATCH_SIZE + 1}, a \in TxSamples, b \in TxSamples }

HistoryLens ==
    {0, 1} \cup { k * BATCH_SIZE + d : k \in 1..MaxPages, d \in {-1, 0, 1} }

PagingHistories ==
    { [len |-> n, marked |-> <<>>] : n \in HistoryLens }
    \cup { [len |-> n, marked |-> <<[pos |-> n, tx |-> t]>>] :
             n \in HistoryLens \ {0},
             t \in { PlainTx(3, NoBlockTime, <<AtaCreate("A1")>>),
                     Tx(TRUE, FALSE, "some", 3, NoBlockTime, "json", "parsed",
                        TRUE, <<>>) } }

Budgets == {0, 1, 2} \cup { k * BATCH_SIZE + d : k \in 1..MaxPages, d \in {0, 1} }

\* 0 is discover_from_signatures; otherwise the checkpoint's position
Checkpoints == {0, 2, BATCH_SIZE + 1}

\* the runs checked: every history with a few budgets, and the histories
\* that differ in length only with every budget and checkpoint
DiscInputs ==
    { [history |-> h, max |-> m, since |-> c] :
        h \in RichHistories, m \in {1, BATCH_SIZE, MaxPages * BATCH_SIZE + 1},
        c \in {0, 2} }
    \cup { [history |-> h, max |-> m, since |-> c] :
             h \in PagingHistories, m \in Budgets, c \in Checkpoints }

\* the record scan_accounts stores for a discovered account
\* (monitor.rs 38-47, main.rs 187-198)
StoredAccount(info) ==
    [pubkey |-> info.pubkey, created_at |-> info.creation_time,
     rent_lamports |-> info.initial_balance, data_size |-> info.data_size,
     status |-> "Active", creation_slot |-> info.creation_slot]

DiscLocalsIdle ==
    /\ total_fetched = 0
    /\ before_signature = 0
    /\ seen_accounts = {}
    /\ all_sponsored = <<>>
    /\ requests = <<>>
    /\ d_result = NoAccounts

DiscIdle ==
    /\ history = NoHistory
    /\ max_signatures = 0
    /\ since_signature = 0
    /\ d_pc = "off"
    /\ d_run = 1
    /\ d_first = NoAccounts
    /\ db_accounts = <<>>
    /\ DiscLocalsIdle

\* ---- the parts of the state a specification does not use
NoStrategy == [resp |-> [kind |-> "not_called", acc |-> NoAccount],
               label |-> "pending", authority |-> "none"]

StratIdle ==
    /\ s_pc = "idle"
    /\ strategy = NoStrategy

BatchAddrs == Addrs \cup {"A3"}

EmptySummary == [total_accounts |-> 0, successful |-> 0, failed |-> 0,
                 total_reclaimed |-> 0, results |-> <<>>]

BatchIdle ==
    /\ b_pc = "idle"
    /\ chain = [a \in BatchAddrs |-> [kind |-> "none", acc |-> NoAccount]]
    /\ accounts = <<>>
    /\ batch_size = 1
    /\ b_idx = 0
    /\ chunk_results = <<>>
    /\ summary = EmptySummary
    /\ b_log = <<>>


\* reconciliation.rs 8-13: PassiveReclaim, without its timestamp
PassiveReclaim(amount, attributed, confidence) ==
    [amount |-> amount, attributed_accounts |-> attributed, confidence |-> confidence]

\* db.rs 552: the checkpoints table holds no treasury_balance row
NoBalance == -1

NoTreasuryCall == [read |-> FALSE, current |-> 0, last |-> 0, before |-> <<>>,
                   first |-> <<>>, probed |-> <<>>, stored |-> NoBalance, own |-> 0]

TreasIdle ==
    /\ t_pc = "idle"
    /\ t_db = <<>>
    /\ last_balance = NoBalance
    /\ t_own = 0
    /\ t_call = NoTreasuryCall
    /\ t_result = [kind |-> "pending", reclaims |-> <<>>]
    /\ m_pc = "idle"
    /\ m_in = [increase |-> 0, closed_accounts |-> <<>>]
    /\ m_out = <<>>

\* the checkpoints table without a cursor, and a scan that found nothing
NoCheckpoint == [sig |-> 0, slot |-> 0]
NoScan == [since |-> 0, accounts |-> <<>>, fetched |-> {}]

CycleIdle ==
    /\ c_chain = NoHistory
    /\ c_checkpoint = NoCheckpoint
    /\ c_status = [a \in Addrs |-> "none"]
    /\ c_ripe = {}
    /\ c_handed = {}
    /\ c_pc = "off"
    /\ c_found = NoScan
    /\ h_pc = "off"
    /\ h_found = NoScan
    /\ c_base = 0
    /\ c_fetched = {}

\* utils.rs 35: last_call before the first call of wait
NoInstant == -1
Callers == 1..MaxCallers

LimiterIdle ==
    /\ clock = 0
    /\ delay = 0
    /\ last_call = NoInstant
    /\ w_pc = [c \in Callers |-> "off"]
    /\ remaining = [c \in Callers |-> 0]
    /\ slept_from = [c \in Callers |-> 0]
    /\ returns = <<>>

NoResponse == [kind |-> "not_called", acc |-> NoAccount]

EngineIdle ==
    /\ pc = "idle"
    /\ account_pubkey = "none"
    /\ account_type = [tag |-> "System", program |-> SystemProgram]
    /\ fetched = NoResponse
    /\ instruction = NoInstruction
    /\ attempt = 0
    /\ last_error = "none"
    /\ result = NoResult
    /\ rpc_log = <<>>

EligIdle ==
    /\ e_pc = "idle"
    /\ check = NoCheck

AutoIdle ==
    /\ a_pc = "scan"
    /\ sponsored_accounts = <<>>
    /\ idx = 1
    /\ eligible = <<>>
    /\ handed = <<>>
    /\ answer = [pubkey |-> "none", result |-> "pending"]
    /\ db_status = [a \in Addrs |-> "absent"]
    /\ stages = <<>>

\* the engine as the command line, the loop and the dashboard construct it
Init ==
    /\ operator_pubkey \in Keys
    /\ signer \in Keys
    /\ treasury_wallet \in Keys
    /\ dry_run \in BOOLEAN
    /\ whitelist = {}
    /\ blacklist = {}
    /\ min_inactive_days = 0
    /\ EngineIdle
    /\ CycleIdle
    /\ LimiterIdle
    /\ EligIdle
    /\ AutoIdle
    /\ TreasIdle
    /\ DiscIdle
    /\ StratIdle
    /\ BatchIdle

\* the classifier as EligibilityChecker::new(rpc_client, config) leaves it
InitElig ==
    /\ operator_pubkey \in {"K1", ZeroKey}
    /\ signer = "K1"
    /\ treasury_wallet = "K1"
    /\ dry_run = FALSE
    /\ whitelist \in SUBSET {"A1"}
    /\ blacklist \in SUBSET {"A2"}
    /\ min_inactive_days \in 0..MaxWindowDays
    /\ EngineIdle
    /\ CycleIdle
    /\ LimiterIdle
    /\ EligIdle
    /\ AutoIdle
    /\ TreasIdle
    /\ DiscIdle
    /\ StratIdle
    /\ BatchIdle

\* engine.rs 50-196: the call, its account fetch, the checks, the build
reclaim_account(pubkey, type, resp) ==
    /\ pc = "idle"
    /\ LET out == ReclaimPrecheck(pubkey, type, resp, treasury_wallet, signer, dry_run)
       IN  /\ account_pubkey' = pubkey
           /\ account_type' = type
           /\ fetched' = resp
           /\ instruction' = out.ins
           /\ result' = out.res
           /\ pc' = IF out.step = "return" THEN "done" ELSE "blockhash"
    /\ attempt' = 0
    /\ last_error' = "none"
    /\ rpc_log' = <<LogEntry("rate_limit", 0, NoSig), LogEntry("get_account", 0, NoSig)>>
    /\ UNCHANGED <<otherVars, cfgVars, eligVars, autoVars>>

\* engine.rs 198: get_latest_blockhash()?
GetLatestBlockhash(ok) ==
    /\ pc = "blockhash"
    /\ rpc_log' = Append(rpc_log, LogEntry("get_latest_blockhash", 0, NoSig))
    /\ IF ok
       THEN /\ pc' = "send"
            /\ attempt' = 1
            /\ result' = result
       ELSE /\ pc' = "done"
            /\ attempt' = attempt
            /\ result' = ErrResult("SolanaRpc")
    /\ UNCHANGED <<otherVars, cfgVars, eligVars, autoVars, account_pubkey, account_type, fetched, instruction, last_error>>

\* faulty variant: a fixed delay instead of an exponential one
BackoffDelay_Constant(k) == 2

\* client.rs 152: Duration::from_secs(2u64.pow(attempt))
BackoffDelay(k) == 2 ^ k

\* faulty variant: the confirmed signature is dropped from the result
SubmittedResult_NoSignature(sig, amt, acct) == OkResult(NoSig, amt, acct, FALSE)

\* engine.rs 218-223: the result after a confirmed submission
SubmittedResult(sig, amt, acct) == OkResult(sig, amt, acct, FALSE)

\* client.rs 138-156: one iteration of the retry loop, with its backoff sleep;
\* engine.rs 209-223 when the loop returns
SendAttempt(ok, sig) ==
    /\ pc = "send"
    /\ attempt \in 1..MAX_RETRIES
    /\ IF ok
       THEN /\ rpc_log' = rpc_log \o <<LogEntry("rate_limit", 0, NoSig),
                                       LogEntry("send", 1, sig)>>
            /\ result' = SubmittedResult(sig, fetched.acc.lamports, account_pubkey)
            /\ pc' = "done"
            /\ UNCHANGED <<attempt, last_error>>
       ELSE /\ last_error' = "SolanaRpc"
            /\ IF attempt < MAX_RETRIES
               THEN /\ rpc_log' = rpc_log \o <<LogEntry("rate_limit", 0, NoSig),
                                               LogEntry("send", 0, NoSig),
                                               LogEntry("sleep", BackoffDelay(attempt), NoSig)>>
                    /\ attempt' = attempt + 1
                    /\ pc' = "send"
                    /\ result' = result
               ELSE /\ rpc_log' = rpc_log \o <<LogEntry("rate_limit", 0, NoSig),
                                               LogEntry("send", 0, NoSig)>>
                    /\ attempt' = attempt
                    /\ pc' = "done"
                    /\ result' = ErrResult(last_error')
    /\ UNCHANGED <<otherVars, cfgVars, eligVars, autoVars, account_pubkey, account_type, fetched, instruction>>

\* the caller takes the result; the locals of the call are dropped
Return ==
    /\ pc = "done"
    /\ pc' = "idle"
    /\ account_pubkey' = "none"
    /\ account_type' = [tag |-> "System", program |-> SystemProgram]
    /\ fetched' = NoResponse
    /\ instruction' = NoInstruction
    /\ attempt' = 0
    /\ last_error' = "none"
    /\ result' = NoResult
    /\ rpc_log' = <<>>
    /\ UNCHANGED <<otherVars, cfgVars, eligVars, autoVars>>

\* a caller (batch_reclaim, the command line, the dashboard) calls the engine
ReclaimAccount ==
    /\ pc = "idle"
    /\ \E a \in Addrs, t \in AccountTypes, r \in GetAccountResponses :
          reclaim_account(a, t, r)

Next ==
    \/ ReclaimAccount
    \/ \E ok \in BOOLEAN : GetLatestBlockhash(ok)
    \/ \E ok \in BOOLEAN, s \in Sigs : SendAttempt(ok, s)
    \/ Return

Spec == Init /\ [][Next]_vars

\* ------------------------------------------------ Eligibility Classifier
CurrentConfig == EligConfig(whitelist, blacklist, min_inactive_days, operator_pubkey)

\* eligibility.rs 23-96: one call of is_eligible
IsEligible ==
    /\ e_pc = "idle"
    /\ \E pubkey \in Addrs, created_at \in {0, 1} :
          \E env \in EligEnvs(CurrentConfig, pubkey, created_at) :
             check' = [pubkey |-> pubkey, created_at |-> created_at, env |-> env,
                       result |-> is_eligible(CurrentConfig, pubkey, created_at, env),
                       reason |-> <<>>]
    /\ e_pc' = "done"
    /\ UNCHANGED <<otherVars, cfgVars, engineVars, autoVars>>

\* eligibility.rs 291-363: get_eligibility_reason for the same address and
\* creation time, with the remote side and the clock answering as they did
GetEligibilityReason ==
    /\ e_pc = "done"
    /\ e_pc' = "explained"
    /\ check' = [check EXCEPT !.reason =
                    get_eligibility_reason(CurrentConfig, check.pubkey,
                                           check.created_at, check.env)]
    /\ UNCHANGED <<otherVars, cfgVars, engineVars, autoVars>>

\* the caller takes the answer
EligReturn ==
    /\ e_pc \in {"done", "explained"}
    /\ e_pc' = "idle"
    /\ check' = NoCheck
    /\ UNCHANGED <<otherVars, cfgVars, engineVars, autoVars>>

NextElig == IsEligible \/ GetEligibilityReason \/ EligReturn

SpecElig == InitElig /\ [][NextElig]_vars

\* ----------------------------------------------------- automated loop
\* kora::types::SponsoredAccountInfo, the fields the cycle reads
AccountInfos ==
    { [pubkey |-> a, created_at |-> c, account_type |-> t] :
        a \in Addrs, c \in {0, 1}, t \in AccountTypes }

\* what scan_new_accounts can return: each address at most once
ScanLists ==
    { <<>> } \cup { <<x>> : x \in AccountInfos }
    \cup { p \in AccountInfos \X AccountInfos : p[1].pubkey # p[2].pubkey }

\* the answers is_eligible can give for one account
EligOutcomes(cfg, pubkey, created_at) ==
    { is_eligible(cfg, pubkey, created_at, env) : env \in EligEnvs(cfg, pubkey, created_at) }

\* the configurations the loop is run with, and the answers per account
AutoConfigs ==
    { EligConfig(wl, bl, d, "K1") :
        wl \in SUBSET {"A1"}, bl \in SUBSET {"A2"}, d \in 0..MaxWindowDays }

EligOutcomeTable ==
    [c \in AutoConfigs, a \in Addrs, t \in {0, 1} |-> EligOutcomes(c, a, t)]

\* the loop as main.rs 655-660 enters it; the wallet of the configuration is
\* a string that parses as an address or does not (config.rs 99-102)
InitAuto ==
    /\ operator_pubkey = "K1"
    /\ signer = "K1"
    /\ treasury_wallet \in {"K1", "not-an-address"}
    /\ dry_run \in BOOLEAN
    /\ whitelist \in SUBSET {"A1"}
    /\ blacklist \in SUBSET {"A2"}
    /\ min_inactive_days \in 0..MaxWindowDays
    /\ EngineIdle
    /\ CycleIdle
    /\ LimiterIdle
    /\ EligIdle
    /\ AutoIdle
    /\ TreasIdle
    /\ DiscIdle
    /\ StratIdle
    /\ BatchIdle

\* main.rs 662-759: the clients, the store and the scan (a failure of any of
\* them is followed by the sleep), and the batch save of what the scan found
\* (db.rs 713-739: INSERT OR REPLACE with status Active)
AutoScan ==
    /\ a_pc = "scan"
    /\ \E scanned \in BOOLEAN, list \in ScanLists, saved \in BOOLEAN :
          IF ~scanned
          THEN /\ a_pc' = "sleep"
               /\ stages' = <<"failed">>
               /\ UNCHANGED <<sponsored_accounts, db_status>>
          ELSE /\ a_pc' = "classify"
               /\ stages' = <<"scan">>
               /\ sponsored_accounts' = list
               /\ db_status' =
                     IF saved
                     THEN [a \in Addrs |->
                             IF \E i \in DOMAIN list : list[i].pubkey = a
                             THEN "Active" ELSE db_status[a]]
                     ELSE db_status
    /\ idx' = 1
    /\ eligible' = <<>>
    /\ handed' = <<>>
    /\ UNCHANGED answer
    /\ UNCHANGED <<otherVars, cfgVars, engineVars, eligVars>>

\* main.rs 761-780: one iteration of the classify loop
AutoClassify ==
    /\ a_pc = "classify"
    /\ idx <= Len(sponsored_accounts)
    /\ LET account_info == sponsored_accounts[idx]
       IN  IF db_status[account_info.pubkey] = "Reclaimed"
           THEN UNCHANGED <<eligible, answer>>
           ELSE \E r \in EligOutcomeTable[CurrentConfig, account_info.pubkey,
                                           account_info.created_at] :
                  /\ answer' = [pubkey |-> account_info.pubkey, result |-> r]
                  /\ eligible' = IF r = "true"
                                 THEN Append(eligible, <<account_info.pubkey,
                                                         account_info.account_type>>)
                                 ELSE eligible
    /\ idx' = idx + 1
    /\ UNCHANGED <<a_pc, sponsored_accounts, handed, db_status, stages>>
    /\ UNCHANGED <<otherVars, cfgVars, engineVars, eligVars>>

\* main.rs 788-940: with a non-empty list the keypair is loaded (a failure is
\* followed by the sleep), the wallet parsed (config.treasury_wallet()? at 805
\* and 816: a failure returns from run_auto_service), the treasury checked for
\* passive reclaims (a failure is logged), and the list given to the batch
\* processor; accounts whose result has a signature become Reclaimed
AutoReclaim ==
    /\ a_pc = "classify"
    /\ idx > Len(sponsored_accounts)
    /\ IF eligible = <<>>
       THEN /\ stages' = Append(stages, "classify")
            /\ a_pc' = "sleep"
            /\ UNCHANGED <<handed, db_status>>
       ELSE \E keypair_ok \in BOOLEAN,
               signed \in SUBSET {eligible[i][1] : i \in DOMAIN eligible} :
              IF ~keypair_ok
              THEN /\ stages' = stages \o <<"classify", "failed">>
                   /\ a_pc' = "sleep"
                   /\ UNCHANGED <<handed, db_status>>
              ELSE IF ~PubkeyParses(treasury_wallet)
              THEN /\ stages' = stages \o <<"classify", "failed">>
                   /\ a_pc' = "exited"
                   /\ UNCHANGED <<handed, db_status>>
              ELSE /\ stages' = stages \o <<"classify", "reconcile", "reclaim">>
                   /\ a_pc' = "sleep"
                   /\ handed' = eligible
                   /\ db_status' =
                         [a \in Addrs |->
                            IF a \in signed /\ ~dry_run THEN "Reclaimed"
                            ELSE db_status[a]]
    /\ UNCHANGED <<sponsored_accounts, idx, eligible, answer>>
    /\ UNCHANGED <<otherVars, cfgVars, engineVars, eligVars>>

\* main.rs 942: the sleep; the locals of the cycle are dropped
AutoSleep ==
    /\ a_pc = "sleep"
    /\ a_pc' = "scan"
    /\ sponsored_accounts' = <<>>
    /\ idx' = 1
    /\ eligible' = <<>>
    /\ handed' = <<>>
    /\ stages' = <<>>
    /\ answer' = [pubkey |-> "none", result |-> "pending"]
    /\ UNCHANGED db_status
    /\ UNCHANGED <<otherVars, cfgVars, engineVars, eligVars>>

NextAuto == AutoScan \/ AutoClassify \/ AutoReclaim \/ AutoSleep

SpecAuto == InitAuto /\ [][NextAuto]_vars

\* ------------------------------------------------------ discovery runs
InitDisc ==
    /\ operator_pubkey = "K1"
    /\ signer = "K1"
    /\ treasury_wallet = "K1"
    /\ dry_run = FALSE
    /\ whitelist = {}
    /\ blacklist = {}
    /\ min_inactive_days = 0
    /\ EngineIdle
    /\ CycleIdle
    /\ LimiterIdle
    /\ EligIdle
    /\ AutoIdle
    /\ TreasIdle
    /\ StratIdle
    /\ b_pc = "idle"
    /\ chain = [a \in BatchAddrs |->
                  [kind |-> "some",
                   acc |-> [lamports |-> ATA_RENT_EXEMPTION, owner |-> SplTokenProgram,
                            data |-> ZeroData(TokenAccountLen)]]]
    /\ accounts = <<>>
    /\ batch_size = 1
    /\ b_idx = 0
    /\ chunk_results = <<>>
    /\ summary = EmptySummary
    /\ b_log = <<>>
    /\ \E in \in DiscInputs :
          /\ history = in.history
          /\ max_signatures = in.max
          /\ since_signature = in.since
    /\ d_pc = "idle"
    /\ d_run = 1
    /\ d_first = NoAccounts
    /\ db_accounts = <<>>
    /\ DiscLocalsIdle

\* accounts.rs 64-77, 137-151: the call, up to the first test of the loop
DiscStart ==
    /\ d_pc = "idle"
    /\ IF total_fetched < max_signatures
       THEN /\ d_pc' = "loop"
            /\ UNCHANGED d_result
       ELSE /\ d_pc' = "done"
            /\ d_result' = OkAccounts(all_sponsored)
    /\ UNCHANGED <<history, max_signatures, since_signature, d_run, total_fetched,
                   before_signature, seen_accounts, all_sponsored, requests,
                   d_first, db_accounts>>
    /\ UNCHANGED <<cfgVars, engineVars, eligVars, autoVars, cycleVars, limiterVars, treasVars, stratVars, batchVars>>

\* accounts.rs 78-130, 152-205: one turn of the loop. rpc_ok is whether the
\* signature request itself succeeded.
DiscFetchPage(rpc_ok) ==
    /\ d_pc = "loop"
    /\ LET limit == PageLimit(max_signatures, total_fetched)
           page == SignaturePage(history, before_signature, since_signature, limit)
           n == IF page.last < page.first THEN 0 ELSE page.last - page.first + 1
           st == ProcessPage(Marked(history, page.first, page.last), 1,
                             [ok |-> TRUE, seen |-> seen_accounts,
                              all |-> all_sponsored])
           request == [before |-> before_signature, until |-> since_signature,
                       limit |-> limit, first |-> page.first, last |-> page.last,
                       n |-> IF rpc_ok THEN n ELSE 0, ok |-> rpc_ok]
       IN  /\ requests' = Append(requests, request)
           /\ IF ~rpc_ok
              THEN /\ d_pc' = "done"
                   /\ d_result' = ErrAccounts
                   /\ UNCHANGED <<total_fetched, before_signature, seen_accounts,
                                  all_sponsored>>
              ELSE IF n = 0
              THEN /\ d_pc' = "done"
                   /\ d_result' = OkAccounts(all_sponsored)
                   /\ UNCHANGED <<total_fetched, before_signature, seen_accounts,
                                  all_sponsored>>
              ELSE IF ~st.ok
              THEN /\ d_pc' = "done"
                   /\ d_result' = ErrAccounts
                   /\ seen_accounts' = st.seen
                   /\ all_sponsored' = st.all
                   /\ UNCHANGED <<total_fetched, before_signature>>
              ELSE /\ seen_accounts' = st.seen
                   /\ all_sponsored' = st.all
                   /\ total_fetched' = total_fetched + n
                   /\ IF ~LastSignatureOk(history, page.last)
                      THEN /\ d_pc' = "done"
                           /\ d_result' = ErrAccounts
                           /\ UNCHANGED before_signature
                      ELSE /\ before_signature' = page.last
                           /\ IF n < limit \/ total_fetched + n >= max_signatures
                              THEN /\ d_pc' = "done"
                                   /\ d_result' = OkAccounts(st.all)
                              ELSE /\ d_pc' = "loop"
                                   /\ UNCHANGED d_result
    /\ UNCHANGED <<history, max_signatures, since_signature, d_run, d_first,
                   db_accounts>>
    /\ UNCHANGED <<cfgVars, engineVars, eligVars, autoVars, cycleVars, limiterVars, treasVars, stratVars, batchVars>>

\* monitor.rs 32-51 and main.rs 168-208: the last activity of every account
\* found is looked up (lookups_ok: none of the lookups failed), then each
\* account is stored with INSERT OR REPLACE
RECURSIVE StoreAll(_, _, _)
StoreAll(db, found, i) ==
    IF i > Len(found) THEN db
    ELSE LET rec == StoredAccount(found[i])
             others == SelectSeq(db, LAMBDA x : x.pubkey # rec.pubkey)
         IN  StoreAll(Append(others, rec), found, i + 1)

DiscSave(lookups_ok) ==
    /\ d_pc = "done"
    /\ d_pc' = "saved"
    /\ db_accounts' = IF d_result.kind = "ok" /\ lookups_ok
                      THEN StoreAll(db_accounts, d_result.accounts, 1)
                      ELSE db_accounts
    /\ UNCHANGED <<history, max_signatures, since_signature, d_run, total_fetched,
                   before_signature, seen_accounts, all_sponsored, requests,
                   d_result, d_first>>
    /\ UNCHANGED <<cfgVars, engineVars, eligVars, autoVars, cycleVars, limiterVars, treasVars, stratVars, batchVars>>

\* the same call once more over the same history
DiscAgain ==
    /\ d_pc = "saved"
    /\ d_run = 1
    /\ d_run' = 2
    /\ d_first' = d_result
    /\ d_pc' = "idle"
    /\ total_fetched' = 0
    /\ before_signature' = 0
    /\ seen_accounts' = {}
    /\ all_sponsored' = <<>>
    /\ requests' = <<>>
    /\ d_result' = NoAccounts
    /\ UNCHANGED <<history, max_signatures, since_signature, db_accounts>>
    /\ UNCHANGED <<cfgVars, engineVars, eligVars, autoVars, cycleVars, limiterVars, treasVars, stratVars, batchVars>>

NextDisc ==
    \/ DiscStart
    \/ \E rpc_ok \in BOOLEAN : DiscFetchPage(rpc_ok)
    \/ \E lookups_ok \in BOOLEAN : DiscSave(lookups_ok)
    \/ DiscAgain

SpecDisc == InitDisc /\ [][NextDisc]_vars

\* ------------------------------------------------- reclaim strategy
\* faulty variant: the owner is reported even when a close authority is set
get_token_close_authority_OwnerOnly(account) ==
    IF account.data.len < TokenAccountLen THEN "none"
    ELSE account.data.owner

\* eligibility.rs 182-207
get_token_close_authority(account) ==
    IF account.data.len < TokenAccountLen THEN "none"
    ELSE IF account.data.closeFlag = CloseAuthSet THEN account.data.closeAuth
    ELSE account.data.owner

\* eligibility.rs 132-179
determine_reclaim_strategy(operator, resp) ==
    IF resp.kind = "err" THEN [label |-> "err", authority |-> "none"]
    ELSE IF resp.kind = "none" THEN [label |-> "Unknown", authority |-> "none"]
    ELSE LET type == determine_account_type(resp.acc)
         IN  IF type.tag = "System"
             THEN [label |-> "Unrecoverable", authority |-> "none"]
             ELSE IF type.tag = "SplToken"
             THEN IF has_close_authority(resp.acc, operator)
                  THEN [label |-> "ActiveReclaim", authority |-> operator]
                  ELSE [label |-> "PassiveMonitoring",
                        authority |-> get_token_close_authority(resp.acc)]
             ELSE [label |-> "Unknown", authority |-> "none"]

InitStrat ==
    /\ operator_pubkey \in Keys
    /\ signer = "K1"
    /\ treasury_wallet = "K1"
    /\ dry_run = FALSE
    /\ whitelist = {}
    /\ blacklist = {}
    /\ min_inactive_days = 0
    /\ EngineIdle
    /\ CycleIdle
    /\ LimiterIdle
    /\ EligIdle
    /\ AutoIdle
    /\ TreasIdle
    /\ DiscIdle
    /\ StratIdle
    /\ BatchIdle

\* one call of determine_reclaim_strategy
DetermineStrategy ==
    /\ s_pc = "idle"
    /\ \E resp \in GetAccountResponses :
          LET r == determine_reclaim_strategy(operator_pubkey, resp)
          IN  strategy' = [resp |-> resp, label |-> r.label, authority |-> r.authority]
    /\ s_pc' = "done"
    /\ UNCHANGED <<cfgVars, engineVars, eligVars, autoVars, cycleVars, limiterVars, treasVars, discVars, batchVars>>

\* the caller takes the answer
StratReturn ==
    /\ s_pc = "done"
    /\ s_pc' = "idle"
    /\ strategy' = NoStrategy
    /\ UNCHANGED <<cfgVars, engineVars, eligVars, autoVars, cycleVars, limiterVars, treasVars, discVars, batchVars>>

NextStrat == DetermineStrategy \/ StratReturn

SpecStrat == InitStrat /\ [][NextStrat]_vars

\* ----------------------------------------------------------------- batch
\* recent blockhashes the gateway may hand out; two calls of one run may get
\* the same one
Blockhashes == {"B1", "B2"}

\* engine.rs 200-205: Transaction::new_signed_with_payer. The signature is
\* the signer's signature of the message, so it is fixed by the instruction
\* and the blockhash, and differs when either differs.
Sign(ins, blockhash) ==
    LET row == CASE ins.account = "A1" -> <<"A1/B1", "A1/B2">>
                 [] ins.account = "A2" -> <<"A2/B1", "A2/B2">>
                 [] ins.account = "A3" -> <<"A3/B1", "A3/B2">>
    IN  IF blockhash = "B1" THEN row[1] ELSE row[2]

\* what the remote calls of one reclaim_account do: all succeed, the account
\* fetch fails, the blockhash fetch fails, or every send attempt fails
RpcOutcomes == {"ok", "get_account_err", "blockhash_err", "send_err"}

\* engine.rs 50-224: one call of reclaim_account from the batch, start to
\* return, against the account's state on chain
ReclaimOutcome(pubkey, type, state, rpc, blockhash) ==
    LET resp == IF rpc = "get_account_err"
                THEN [kind |-> "err", acc |-> NoAccount]
                ELSE state
        out == ReclaimPrecheck(pubkey, type, resp, treasury_wallet, signer, dry_run)
    IN  IF out.step = "return" THEN out.res
        ELSE IF rpc \in {"blockhash_err", "send_err"} THEN ErrResult("SolanaRpc")
        ELSE SubmittedResult(Sign(out.ins, blockhash), resp.acc.lamports, pubkey)

\* faulty variant: a chunk starts on the last account of the chunk before it
Chunk_Overlap(accts, done, size) ==
    SubSeq(accts, IF done = 0 THEN 1 ELSE done, Min(done + size, Len(accts)))

\* batch.rs 46: accounts.chunks(batch_size), the chunk that starts after
\* the first `done` accounts
Chunk(accts, done, size) == SubSeq(accts, done + 1, Min(done + size, Len(accts)))

RECURSIVE Tally_StopAtFailure(_, _, _)
\* faulty variant: the first failure of a chunk ends its tally
Tally_StopAtFailure(sum, res, i) ==
    IF i > Len(res) THEN sum
    ELSE IF res[i].result.ok
         THEN Tally_StopAtFailure(
                  [sum EXCEPT !.successful = @ + 1,
                              !.total_reclaimed = @ + res[i].result.amount_reclaimed,
                              !.results = Append(@, res[i])],
                  res, i + 1)
         ELSE [sum EXCEPT !.failed = @ + 1,
                          !.results = Append(@, res[i])]

RECURSIVE Tally(_, _, _)
\* batch.rs 58-71: the results of a chunk folded into the summary
Tally(sum, res, i) ==
    IF i > Len(res) THEN sum
    ELSE IF res[i].result.ok
         THEN Tally([sum EXCEPT !.successful = @ + 1,
                                !.total_reclaimed = @ + res[i].result.amount_reclaimed,
                                !.results = Append(@, res[i])],
                    res, i + 1)
         ELSE Tally([sum EXCEPT !.failed = @ + 1,
                                !.results = Append(@, res[i])],
                    res, i + 1)

\* token accounts as the batch may find them: closable by the operator,
\* frozen, or owned by someone else
BatchTokenData(owner, state) ==
    FieldData(TokenAccountLen, owner, <<0, 0, 0, 0, 0, 0, 0, 0>>, state, 0, ZeroKey, 1)

BatchChainSamples ==
    { [kind |-> "none", acc |-> NoAccount] }
    \cup { [kind |-> "some",
            acc |-> [lamports |-> MaxLamports, owner |-> SplTokenProgram, data |-> d]] :
             d \in { BatchTokenData("K1", 1), BatchTokenData("K1", FrozenState),
                     BatchTokenData("K2", 1) } }

\* lists of (address, recorded type) without a repeated address, as the callers
\* build them from the discovered or stored accounts (main.rs 759-778,
\* tui/app.rs 318-351)
BatchLists ==
    LET types == { t \in AccountTypes : t.tag \in {"SplToken", "System"} }
        lists(n) == { l \in [1..n -> BatchAddrs \X types] :
                        \A i, j \in 1..n : i # j => l[i][1] # l[j][1] }
    IN  UNION { lists(n) : n \in 0..Cardinality(BatchAddrs) }

InitBatch ==
    /\ operator_pubkey = "K1"
    /\ signer = "K1"
    /\ treasury_wallet = "K1"
    /\ dry_run \in BOOLEAN
    /\ whitelist = {}
    /\ blacklist = {}
    /\ min_inactive_days = 0
    /\ EngineIdle
    /\ CycleIdle
    /\ LimiterIdle
    /\ EligIdle
    /\ AutoIdle
    /\ TreasIdle
    /\ DiscIdle
    /\ StratIdle
    /\ b_pc = "idle"
    /\ chain \in [BatchAddrs -> BatchChainSamples]
    /\ accounts \in BatchLists
    /\ batch_size \in 0..MaxBatchSize
    /\ b_idx = 0
    /\ chunk_results = <<>>
    /\ summary = EmptySummary
    /\ b_log = <<>>

\* one entry of the log of a run
BatchEvent(op, pubkey) == [op |-> op, account |-> pubkey]

\* batch.rs 110-121, 32-46: reclaim_all_eligible and the head of process_batch.
\* chunks(0) panics (slice::chunks: "chunk size must be non-zero").
ProcessBatch ==
    /\ b_pc = "idle"
    /\ b_idx' = 0
    /\ chunk_results' = <<>>
    /\ b_log' = <<>>
    /\ IF accounts = <<>>
       THEN /\ summary' = EmptySummary
            /\ b_pc' = "done"
       ELSE /\ summary' = [EmptySummary EXCEPT !.total_accounts = Len(accounts)]
            /\ b_pc' = IF batch_size = 0 THEN "panicked" ELSE "wait"
    /\ UNCHANGED <<cfgVars, engineVars, eligVars, autoVars, cycleVars, limiterVars, treasVars, discVars, stratVars,
                   chain, accounts, batch_size>>

\* batch.rs 46-50: the next chunk is taken and the rate limiter awaited
RateLimit ==
    /\ b_pc = "wait"
    /\ b_log' = Append(b_log, BatchEvent("wait", "none"))
    /\ b_pc' = "chunk"
    /\ UNCHANGED <<cfgVars, engineVars, eligVars, autoVars, cycleVars, limiterVars, treasVars, discVars, stratVars,
                   chain, accounts, batch_size, b_idx, chunk_results, summary>>

\* engine.rs 291-294: one turn of the loop of batch_reclaim over the chunk;
\* a confirmed close takes the account off the chain
BatchReclaimStep(rpc, blockhash) ==
    /\ b_pc = "chunk"
    /\ LET chunk == Chunk(accounts, b_idx, batch_size)
           k == Len(chunk_results) + 1
           pubkey == chunk[k][1]
           res == ReclaimOutcome(pubkey, chunk[k][2], chain[pubkey], rpc, blockhash)
           sent == /\ rpc \in {"ok", "send_err"}
                   /\ ReclaimPrecheck(pubkey, chunk[k][2], chain[pubkey], treasury_wallet,
                                      signer, dry_run).step = "submit"
       IN  /\ chunk_results' = Append(chunk_results, [pubkey |-> pubkey, result |-> res])
           /\ b_log' = b_log \o <<BatchEvent("reclaim", pubkey)>>
                             \o (IF sent THEN <<BatchEvent("send", pubkey)>> ELSE <<>>)
           /\ chain' = IF res.ok /\ res.signature # NoSig
                       THEN [chain EXCEPT ![pubkey] = [kind |-> "none", acc |-> NoAccount]]
                       ELSE chain
           /\ b_pc' = IF k = Len(chunk) THEN "tally" ELSE "chunk"
    /\ UNCHANGED <<cfgVars, engineVars, eligVars, autoVars, cycleVars, limiterVars, treasVars, discVars, stratVars,
                   accounts, batch_size, b_idx, summary>>

\* faulty variant: the delay also follows the last chunk
DelayAfter_Always(batch_num, n, size) == TRUE

\* batch.rs 94: batch_num < (accounts.len() + batch_size - 1) / batch_size - 1
DelayAfter(batch_num, n, size) == batch_num < (n + size - 1) \div size - 1

\* batch.rs 55-97: batch_reclaim has returned Ok(res) (it has no other
\* return, engine.rs 296, so the arm that retries a failed chunk is never
\* taken); the chunk is tallied, the delay slept, and the loop goes on
TallyChunk ==
    /\ b_pc = "tally"
    /\ summary' = Tally(summary, chunk_results, 1)
    /\ b_idx' = b_idx + Len(chunk_results)
    /\ chunk_results' = <<>>
    /\ b_log' = IF DelayAfter(b_idx \div batch_size, Len(accounts), batch_size)
                THEN Append(b_log, BatchEvent("sleep", "none"))
                ELSE b_log
    /\ b_pc' = IF b_idx' < Len(accounts) THEN "wait" ELSE "done"
    /\ UNCHANGED <<cfgVars, engineVars, eligVars, autoVars, cycleVars, limiterVars, treasVars, discVars, stratVars,
                   chain, accounts, batch_size>>

\* batch.rs 106: Ok(summary); the caller may run the same list again later
BatchReturn ==
    /\ b_pc = "done"
    /\ b_pc' = "idle"
    /\ b_idx' = 0
    /\ summary' = EmptySummary
    /\ b_log' = <<>>
    /\ UNCHANGED <<cfgVars, engineVars, eligVars, autoVars, cycleVars, limiterVars, treasVars, discVars, stratVars,
                   chain, accounts, batch_size, chunk_results>>

NextBatch ==
    \/ ProcessBatch
    \/ RateLimit
    \/ \E rpc \in RpcOutcomes, blockhash \in Blockhashes : BatchReclaimStep(rpc, blockhash)
    \/ TallyChunk
    \/ BatchReturn

SpecBatch == InitBatch /\ [][NextBatch]_vars


\* -------------------------------------------------------------- treasury
\* storage/models.rs SponsoredAccount, reduced to what reconciliation reads:
\* the address, the recorded rent, the status, and whether closed_at lies
\* within the last 24 hours (monitor.rs 69). The addresses of the store are
\* written from parsed addresses (main.rs 730), so they parse.
Row(pubkey, rent, status, recent) ==
    [pubkey |-> pubkey, rent_lamports |-> rent, status |-> status, recent |-> recent]

\* reconciliation.rs 36-40, 113, 132: the absolute difference of two u64
AbsDiff(a, b) == IF a > b THEN a - b ELSE b - a

\* faulty variant: the tolerance is applied to overshoot only
WithinTolerance_OneSided(increase, rent) == increase - rent <= Tolerance

\* reconciliation.rs 36-42: diff <= tolerance
WithinTolerance(increase, rent) == AbsDiff(increase, rent) <= Tolerance

\* reconciliation.rs 35-58: the first account whose rent matches (0: none)
FirstExact(increase, closed_accounts) ==
    LET hits == { i \in DOMAIN closed_accounts :
                    WithinTolerance(increase, closed_accounts[i].rent_lamports) }
    IN  IF hits = {} THEN 0 ELSE CHOOSE i \in hits : \A j \in hits : i <= j

\* the first of a set of index tuples in the order of the nested loops
FirstTuple(tuples, n) ==
    CHOOSE t \in tuples :
        \A u \in tuples :
            \E k \in 1..(n + 1) :
                /\ \A h \in 1..(k - 1) : t[h] = u[h]
                /\ k <= n => t[k] < u[k]

\* faulty variant: the triples are not tried
find_account_combination_PairsOnly(target, accts, tolerance) ==
    LET n == Len(accts)
        pairs == { p \in (1..n) \X (1..n) :
                     /\ p[1] < p[2]
                     /\ AbsDiff(accts[p[1]].rent_lamports + accts[p[2]].rent_lamports,
                                target) <= tolerance }
    IN  IF pairs # {}
        THEN [found |-> TRUE,
              accounts |-> [k \in 1..2 |-> accts[FirstTuple(pairs, 2)[k]].pubkey]]
        ELSE [found |-> FALSE, accounts |-> <<>>]

\* reconciliation.rs 104-147. The sums stay far below 2^64: a rent is an
\* amount of lamports that existed on chain.
find_account_combination(target, accts, tolerance) ==
    LET n == Len(accts)
        pairs == { p \in (1..n) \X (1..n) :
                     /\ p[1] < p[2]
                     /\ AbsDiff(accts[p[1]].rent_lamports + accts[p[2]].rent_lamports,
                                target) <= tolerance }
        triples == { p \in (1..n) \X (1..n) \X (1..n) :
                       /\ p[1] < p[2]
                       /\ p[2] < p[3]
                       /\ AbsDiff(accts[p[1]].rent_lamports + accts[p[2]].rent_lamports
                                  + accts[p[3]].rent_lamports, target) <= tolerance }
    IN  IF pairs # {}
        THEN [found |-> TRUE,
              accounts |-> [k \in 1..2 |-> accts[FirstTuple(pairs, 2)[k]].pubkey]]
        ELSE IF triples # {}
        THEN [found |-> TRUE,
              accounts |-> [k \in 1..3 |-> accts[FirstTuple(triples, 3)[k]].pubkey]]
        ELSE [found |-> FALSE, accounts |-> <<>>]

\* reconciliation.rs 27-101
match_amount_to_accounts(increase, closed_accounts) ==
    LET i == FirstExact(increase, closed_accounts)
        combination == IF Len(closed_accounts) >= 2
                       THEN find_account_combination(increase, closed_accounts, Tolerance)
                       ELSE [found |-> FALSE, accounts |-> <<>>]
        likely == [k \in 1..Min(LikelyAccounts, Len(closed_accounts)) |->
                     closed_accounts[k].pubkey]
    IN  IF i # 0
        THEN <<PassiveReclaim(increase, <<closed_accounts[i].pubkey>>, "High")>>
        ELSE IF combination.found
        THEN <<PassiveReclaim(increase, combination.accounts, "Medium")>>
        ELSE <<PassiveReclaim(increase, likely,
                              IF closed_accounts = <<>> THEN "Unknown" ELSE "Low")>>

\* db.rs 558-589: status Closed, closed within the window, latest first
get_recently_closed_accounts(db) ==
    LET RecentlyClosed(r) == r.status = "Closed" /\ r.recent
    IN  SelectSeq(db, RecentlyClosed)

\* monitor.rs 94: the rows with status Active whose recorded rent lies in
\* [min, max]
get_active_accounts_by_rent_range(db, min, max) ==
    LET Candidate(r) == /\ r.status = "Active"
                        /\ min <= r.rent_lamports
                        /\ r.rent_lamports <= max
    IN  SelectSeq(db, Candidate)

\* faulty variant: the status of the store is left as it was
update_account_status_Closed_Skipped(db, pubkey) == db

\* db.rs 235-251 with status Closed: the row becomes Closed with closed_at =
\* now, which makes it the latest closed row
update_account_status_Closed(db, pubkey) ==
    LET Hit(r) == r.pubkey = pubkey
        Other(r) == r.pubkey # pubkey
        closed(r) == [r EXCEPT !.status = "Closed", !.recent = TRUE]
        hits == SelectSeq(db, Hit)
    IN  [k \in DOMAIN hits |-> closed(hits[k])] \o SelectSeq(db, Other)

\* what get_account answers for a candidate: Err, Ok(None), Ok(Some) with
\* zero lamports, Ok(Some) with lamports
ProbeAnswers == {"err", "none", "zero", "live"}

RECURSIVE ProbeCandidates(_, _, _, _)
\* monitor.rs 100-122: the loop over the candidates from the i-th on
ProbeCandidates(candidates, i, st, probe) ==
    IF i > Len(candidates) THEN st
    ELSE LET candidate == candidates[i]
             is_closed == probe[candidate.pubkey] \in {"none", "zero"}
             queried == [st EXCEPT !.probed = Append(@, <<candidate.pubkey,
                                                          probe[candidate.pubkey]>>)]
         IN  ProbeCandidates(candidates, i + 1,
                 IF is_closed
                 THEN [queried EXCEPT
                         !.db = update_account_status_Closed(@, candidate.pubkey),
                         !.closed_accounts = Append(@, candidate),
                         !.found_closed = TRUE]
                 ELSE queried,
                 probe)

\* faulty variant: the candidates are probed whatever the first match found
NeedsProbe_Always(matches) == TRUE

\* monitor.rs 85-87: no High match so far
NeedsProbe(matches) ==
    ~ \E i \in DOMAIN matches : matches[i].confidence = "High"

\* monitor.rs 64-136
correlate_balance_increase(increase, db, probe) ==
    LET closed_accounts == get_recently_closed_accounts(db)
        first == IF closed_accounts # <<>>
                 THEN match_amount_to_accounts(increase, closed_accounts)
                 ELSE <<>>
        min == IF increase > ProbeTolerance THEN increase - ProbeTolerance ELSE 0
        max == increase + ProbeTolerance
        candidates == get_active_accounts_by_rent_range(db, min, max)
        st == ProbeCandidates(candidates, 1,
                  [db |-> db, closed_accounts |-> closed_accounts,
                   found_closed |-> FALSE, probed |-> <<>>], probe)
    IN  IF ~NeedsProbe(first)
        THEN [matches |-> first, db |-> db, first |-> first, probed |-> <<>>]
        ELSE [matches |-> IF st.found_closed
                          THEN match_amount_to_accounts(increase, st.closed_accounts)
                          ELSE first,
              db |-> st.db, first |-> first, probed |-> st.probed]

\* faulty variant: an unchanged balance is taken for an increase
NoIncrease_Strict(current_balance, last) == current_balance < last

\* monitor.rs 40: current_balance <= last_balance
NoIncrease(current_balance, last) == current_balance <= last

TreasAddrs == <<"T1", "T2", "T3">>

\* recorded rents: none (the rent stored for an initializeAccount creation),
\* the rent of a token account, and twice that
RentSamples == {0, ATA_RENT_EXEMPTION, 2 * ATA_RENT_EXEMPTION}

RowSamples ==
    { [rent_lamports |-> r, status |-> st[1], recent |-> st[2]] :
        r \in RentSamples,
        st \in {<<"Active", FALSE>>, <<"Closed", TRUE>>, <<"Closed", FALSE>>,
                <<"Reclaimed", FALSE>>} }

\* the store: up to three rows, one address each
StoreSamples ==
    UNION { { [k \in 1..n |-> Row(TreasAddrs[k], f[k].rent_lamports, f[k].status,
                                  f[k].recent)] : f \in [1..n -> RowSamples] } :
            n \in 0..Len(TreasAddrs) }

\* treasury balances, so that their differences fall on, just inside and just
\* outside the tolerance around one, two and three rents
BalanceSamples ==
    {0, Tolerance + 1, ATA_RENT_EXEMPTION, ATA_RENT_EXEMPTION + Tolerance,
     2 * ATA_RENT_EXEMPTION, 3 * ATA_RENT_EXEMPTION}

InitTreas ==
    /\ operator_pubkey = "K1"
    /\ signer = "K1"
    /\ treasury_wallet = "K1"
    /\ dry_run = FALSE
    /\ whitelist = {}
    /\ blacklist = {}
    /\ min_inactive_days = 0
    /\ EngineIdle
    /\ CycleIdle
    /\ LimiterIdle
    /\ EligIdle
    /\ AutoIdle
    /\ DiscIdle
    /\ StratIdle
    /\ BatchIdle
    /\ t_pc = "idle"
    /\ t_db \in StoreSamples
    /\ last_balance \in {0, ATA_RENT_EXEMPTION}
    /\ t_own = 0
    /\ t_call = NoTreasuryCall
    /\ t_result = [kind |-> "pending", reclaims |-> <<>>]
    /\ m_pc = "idle"
    /\ m_in = [increase |-> 0, closed_accounts |-> <<>>]
    /\ m_out = <<>>

\* db.rs 542-555: the stored balance, 0 when there is no row
get_last_treasury_balance(stored) == IF stored = NoBalance THEN 0 ELSE stored

\* monitor.rs 31-60: one call of check_for_passive_reclaims. The store is
\* taken to answer; the gateway may fail.
CheckForPassiveReclaims(balance_ok, current_balance, probe) ==
    /\ t_pc = "idle"
    /\ t_pc' = "done"
    /\ LET last == get_last_treasury_balance(last_balance)
           call == [NoTreasuryCall EXCEPT !.last = last, !.before = t_db,
                                          !.stored = last_balance, !.own = t_own]
       IN  IF ~balance_ok
           THEN /\ t_result' = [kind |-> "err", reclaims |-> <<>>]
                /\ t_call' = call
                /\ UNCHANGED <<t_db, last_balance, t_own>>
           ELSE IF NoIncrease(current_balance, last)
           THEN /\ t_result' = [kind |-> "ok", reclaims |-> <<>>]
                /\ t_call' = [call EXCEPT !.read = TRUE, !.current = current_balance]
                /\ last_balance' = current_balance
                /\ t_own' = 0
                /\ UNCHANGED t_db
           ELSE LET out == correlate_balance_increase(current_balance - last, t_db, probe)
                IN  /\ t_result' = [kind |-> "ok", reclaims |-> out.matches]
                    /\ t_call' = [call EXCEPT !.read = TRUE, !.current = current_balance,
                                              !.first = out.first, !.probed = out.probed]
                    /\ t_db' = out.db
                    /\ last_balance' = current_balance
                    /\ t_own' = 0
    /\ UNCHANGED <<cfgVars, engineVars, eligVars, autoVars, cycleVars, limiterVars, discVars, stratVars,
                   batchVars, m_pc, m_in, m_out>>

\* the caller takes the result
TreasReturn ==
    /\ t_pc = "done"
    /\ t_pc' = "idle"
    /\ t_call' = NoTreasuryCall
    /\ t_result' = [kind |-> "pending", reclaims |-> <<>>]
    /\ UNCHANGED <<cfgVars, engineVars, eligVars, autoVars, cycleVars, limiterVars, discVars, stratVars,
                   batchVars, t_db, last_balance, t_own, m_pc, m_in, m_out>>

\* db.rs 235-251 with status Reclaimed: closed_at is set as for Closed
update_account_status_Reclaimed(db, pubkey) ==
    LET Hit(r) == r.pubkey = pubkey
        Other(r) == r.pubkey # pubkey
        reclaimed(r) == [r EXCEPT !.status = "Reclaimed", !.recent = TRUE]
        hits == SelectSeq(db, Hit)
    IN  [k \in DOMAIN hits |-> reclaimed(hits[k])] \o SelectSeq(db, Other)

\* main.rs 856-880: the batch processor closes the k-th account of the store,
\* an Active one, which moves its lamports to the treasury wallet
\* (engine.rs 226-280), and the loop records it as Reclaimed
ActiveReclaim(k) ==
    /\ t_pc = "idle"
    /\ t_own = 0
    /\ t_db[k].status = "Active"
    /\ t_own' = ATA_RENT_EXEMPTION
    /\ t_db' = update_account_status_Reclaimed(t_db, t_db[k].pubkey)
    /\ UNCHANGED <<cfgVars, engineVars, eligVars, autoVars, cycleVars, limiterVars, discVars, stratVars,
                   batchVars, t_pc, last_balance, t_call, t_result, m_pc, m_in, m_out>>

\* db.rs 523-528: DELETE FROM checkpoints, the treasury_balance row included
ClearCheckpoints ==
    /\ t_pc = "idle"
    /\ last_balance # NoBalance
    /\ last_balance' = NoBalance
    /\ UNCHANGED <<cfgVars, engineVars, eligVars, autoVars, cycleVars, limiterVars, discVars, stratVars,
                   batchVars, t_pc, t_db, t_own, t_call, t_result, m_pc, m_in, m_out>>

\* the addresses get_account may be asked about: those of the Active rows
ActiveAddresses == { t_db[k].pubkey : k \in { j \in DOMAIN t_db : t_db[j].status = "Active" } }

\* the balance read holds what the batch processor moved in since the last
\* check
NextTreas ==
    \/ \E current_balance \in BalanceSamples, probe \in [ActiveAddresses -> ProbeAnswers] :
          CheckForPassiveReclaims(TRUE, current_balance, probe)
    \/ CheckForPassiveReclaims(FALSE, 0, [a \in ActiveAddresses |-> "err"])
    \/ TreasReturn

SpecTreas == InitTreas /\ [][NextTreas]_vars

\* the monitor next to the rest of the service: the store may hold no
\* treasury balance at the start, the batch processor reclaims Active accounts
\* between two checks, and the checkpoints may be cleared. A balance read
\* after a reclaim of the service holds the lamports that reclaim moved.
InitTreasService ==
    /\ operator_pubkey = "K1"
    /\ signer = "K1"
    /\ treasury_wallet = "K1"
    /\ dry_run = FALSE
    /\ whitelist = {}
    /\ blacklist = {}
    /\ min_inactive_days = 0
    /\ EngineIdle
    /\ CycleIdle
    /\ LimiterIdle
    /\ EligIdle
    /\ AutoIdle
    /\ DiscIdle
    /\ StratIdle
    /\ BatchIdle
    /\ t_pc = "idle"
    /\ t_db \in StoreSamples
    /\ last_balance \in {NoBalance, ATA_RENT_EXEMPTION}
    /\ t_own = 0
    /\ t_call = NoTreasuryCall
    /\ t_result = [kind |-> "pending", reclaims |-> <<>>]
    /\ m_pc = "idle"
    /\ m_in = [increase |-> 0, closed_accounts |-> <<>>]
    /\ m_out = <<>>

NextTreasService ==
    \/ \E current_balance \in BalanceSamples, probe \in [ActiveAddresses -> ProbeAnswers] :
          /\ current_balance >= get_last_treasury_balance(last_balance) + t_own
                \/ t_own = 0
          /\ CheckForPassiveReclaims(TRUE, current_balance, probe)
    \/ \E k \in DOMAIN t_db : ActiveReclaim(k)
    \/ ClearCheckpoints
    \/ CheckForPassiveReclaims(FALSE, 0, [a \in ActiveAddresses |-> "err"])
    \/ TreasReturn

SpecTreasService == InitTreasService /\ [][NextTreasService]_vars

\* --------------------------------------------------- the matching alone
MatchAddrs == <<"T1", "T2", "T3", "T4", "T5", "T6">>

\* rents of the lists given to the matching: none, half a token account's,
\* a token account's
MatchRents == {0, ATA_RENT_EXEMPTION \div 2, ATA_RENT_EXEMPTION}

MatchLists ==
    UNION { { [k \in 1..n |-> Row(MatchAddrs[k], f[k], "Closed", TRUE)] :
                f \in [1..n -> MatchRents] } : n \in 0..Len(MatchAddrs) }

MatchIncreases ==
    {0, Tolerance, Tolerance + 1, ATA_RENT_EXEMPTION \div 2, ATA_RENT_EXEMPTION,
     ATA_RENT_EXEMPTION + Tolerance, ATA_RENT_EXEMPTION + Tolerance + 1,
     ATA_RENT_EXEMPTION + ATA_RENT_EXEMPTION \div 2, 2 * ATA_RENT_EXEMPTION,
     3 * ATA_RENT_EXEMPTION, 3 * ATA_RENT_EXEMPTION + Tolerance + 1,
     4 * ATA_RENT_EXEMPTION}

InitMatch ==
    /\ operator_pubkey = "K1"
    /\ signer = "K1"
    /\ treasury_wallet = "K1"
    /\ dry_run = FALSE
    /\ whitelist = {}
    /\ blacklist = {}
    /\ min_inactive_days = 0
    /\ EngineIdle
    /\ CycleIdle
    /\ LimiterIdle
    /\ EligIdle
    /\ AutoIdle
    /\ DiscIdle
    /\ StratIdle
    /\ BatchIdle
    /\ t_pc = "idle"
    /\ t_db = <<>>
    /\ last_balance = NoBalance
    /\ t_own = 0
    /\ t_call = NoTreasuryCall
    /\ t_result = [kind |-> "pending", reclaims |-> <<>>]
    /\ m_pc = "idle"
    /\ m_in \in [increase : MatchIncreases, closed_accounts : MatchLists]
    /\ m_out = <<>>

\* one call of match_amount_to_accounts
MatchAmountToAccounts ==
    /\ m_pc = "idle"
    /\ m_out' = match_amount_to_accounts(m_in.increase, m_in.closed_accounts)
    /\ m_pc' = "done"
    /\ UNCHANGED <<cfgVars, engineVars, eligVars, autoVars, cycleVars, limiterVars, discVars, stratVars,
                   batchVars, t_pc, t_db, last_balance, t_own, t_call, t_result, m_in>>

MatchReturn ==
    /\ m_pc = "done"
    /\ m_pc' = "idle"
    /\ m_out' = <<>>
    /\ UNCHANGED <<cfgVars, engineVars, eligVars, autoVars, cycleVars, limiterVars, discVars, stratVars,
                   batchVars, t_pc, t_db, last_balance, t_own, t_call, t_result, m_in>>

NextMatch == MatchAmountToAccounts \/ MatchReturn

SpecMatch == InitMatch /\ [][NextMatch]_vars


\* ------------------------------------------ the scan cursor over cycles
\* A signature is named by its age: the n-th transaction the operator ever
\* paid for is n, so that a later transaction has a higher name, and its
\* slot is taken to be the same number. The history itself is kept as the
\* gateway lists it, by position from the newest.
SigAt(h, pos) == h.len - pos + 1
PosOf(h, sig) == IF sig = 0 THEN 0 ELSE h.len - sig + 1

RECURSIVE DiscoverLoop(_, _, _, _, _, _)
\* accounts.rs 64-130 and 137-209: the loop of discover_from_signatures
\* (until = 0) and of discover_incremental, without remote errors
DiscoverLoop(h, until, max, total, before, st) ==
    IF total >= max THEN [all |-> st.all, fetched |-> total]
    ELSE LET limit == PageLimit(max, total)
             page == SignaturePage(h, before, until, limit)
             n == IF page.last < page.first THEN 0 ELSE page.last - page.first + 1
             next == ProcessPage(Marked(h, page.first, page.last), 1, st)
         IN  IF n = 0 THEN [all |-> st.all, fetched |-> total]
             ELSE IF n < limit THEN [all |-> next.all, fetched |-> total + n]
             ELSE \* the locals of the next turn, each computed once
                  CHOOSE r \in { DiscoverLoop(h, until, max, t, b, s) :
                                   t \in {total + n}, b \in {page.last}, s \in {next} } :
                      TRUE

\* monitor.rs 24-51 and 159-197: get_sponsored_accounts (since = 0) and
\* scan_new_accounts; what the caller keeps of every account found, the
\* signatures seen, and the cursor the scan started from
ScanAccounts(h, since, max) ==
    LET out == DiscoverLoop(h, PosOf(h, since), max, 0, 0,
                            [ok |-> TRUE, seen |-> {}, all |-> <<>>])
    IN  [since |-> since,
         accounts |-> [k \in DOMAIN out.all |->
                         [pubkey |-> out.all[k].pubkey,
                          creation_signature |-> SigAt(h, out.all[k].creation_signature),
                          creation_slot |-> out.all[k].creation_slot]],
         fetched |-> { SigAt(h, h.marked[k].pos) :
                         k \in { j \in DOMAIN h.marked : h.marked[j].pos <= out.fetched } }]

\* main.rs 710 and commands.rs 93: the signature budgets of the two scans
AutoBudget == 5000
ChatBudget == 100

\* db.rs 713-739: INSERT OR REPLACE of every account found, as Active
save_accounts_batch(status, found) ==
    [a \in Addrs |-> IF \E k \in DOMAIN found : found[k].pubkey = a
                     THEN "Active" ELSE status[a]]

\* main.rs 748-753, commands.rs 120-126: the first account found gives the
\* checkpoint; db.rs 414-438
save_checkpoint(stored, found) ==
    IF found # <<>>
    THEN [sig |-> found[1].creation_signature, slot |-> found[1].creation_slot]
    ELSE stored

\* a fresh store and an operator that has paid for nothing yet
InitCycle ==
    /\ operator_pubkey = "K1"
    /\ signer = "K1"
    /\ treasury_wallet = "K1"
    /\ dry_run = FALSE
    /\ whitelist = {}
    /\ blacklist = {}
    /\ min_inactive_days = 0
    /\ EngineIdle
    /\ EligIdle
    /\ AutoIdle
    /\ DiscIdle
    /\ StratIdle
    /\ BatchIdle
    /\ TreasIdle
    /\ c_chain = NoHistory
    /\ c_checkpoint = NoCheckpoint
    /\ c_status = [a \in Addrs |-> "none"]
    /\ c_ripe = {}
    /\ c_handed = {}
    /\ LimiterIdle
    /\ c_pc = "start"
    /\ c_found = NoScan
    /\ h_pc = "idle"
    /\ h_found = NoScan
    /\ c_base = 0
    /\ c_fetched = {}

CycleFrame == <<cfgVars, engineVars, eligVars, autoVars, discVars, stratVars,
                batchVars, treasVars, limiterVars>>

\* the operator pays for n more transactions, the newest of which creates
\* the token account a
OperatorSends(n, a) ==
    /\ Len(c_chain.marked) < MaxCreations
    /\ LET len == c_chain.len + n
           older == [k \in DOMAIN c_chain.marked |->
                       [c_chain.marked[k] EXCEPT !.pos = @ + n]]
           newest == [pos |-> 1, tx |-> PlainTx(len, NoBlockTime, <<AtaCreate(a)>>)]
       IN  c_chain' = [len |-> len, marked |-> <<newest>> \o older]
    /\ UNCHANGED <<c_checkpoint, c_status, c_ripe, c_handed, c_pc, c_found, h_pc,
                   h_found, c_base, c_fetched>>
    /\ UNCHANGED CycleFrame

\* time passes: the account a, which exists, comes to satisfy every condition
\* of is_eligible and goes on satisfying them until it is closed
Ripens(a) ==
    /\ \E k \in DOMAIN c_chain.marked :
          c_chain.marked[k].tx.instructions = <<AtaCreate(a)>>
    /\ a \notin c_ripe
    /\ a \notin c_handed
    /\ c_ripe' = c_ripe \cup {a}
    /\ UNCHANGED <<c_chain, c_checkpoint, c_status, c_handed, c_pc, c_found, h_pc,
                   h_found, c_base, c_fetched>>
    /\ UNCHANGED CycleFrame

\* main.rs 662-723: the cycle reads the checkpoint and scans; a remote error
\* is followed by the sleep
AutoScanCycle(rpc_ok) ==
    /\ c_pc = "start"
    /\ IF rpc_ok
       THEN LET scan == ScanAccounts(c_chain, c_checkpoint.sig, AutoBudget)
            IN  /\ c_found' = scan
                /\ c_fetched' = c_fetched \cup scan.fetched
                /\ c_pc' = "found"
       ELSE UNCHANGED <<c_found, c_fetched, c_pc>>
    /\ UNCHANGED <<c_chain, c_checkpoint, c_status, c_ripe, c_handed, h_pc, h_found,
                   c_base>>
    /\ UNCHANGED CycleFrame

\* main.rs 725-942: the batch save and the checkpoint, the classify loop
\* (an account stored as Reclaimed is passed over), the batch reclaim, whose
\* accounts become Reclaimed when it succeeds, and the sleep
AutoSave(reclaim_ok) ==
    /\ c_pc = "found"
    /\ LET found == c_found.accounts
           saved == save_accounts_batch(c_status, found)
           now_eligible == { a \in Addrs :
                           /\ \E k \in DOMAIN found : found[k].pubkey = a
                           /\ saved[a] # "Reclaimed"
                           /\ a \in c_ripe }
           moved == IF reclaim_ok THEN now_eligible ELSE {}
       IN  /\ c_checkpoint' = save_checkpoint(c_checkpoint, found)
           /\ c_base' = IF c_base = 0 /\ found # <<>>
                        THEN found[1].creation_signature ELSE c_base
           /\ c_handed' = c_handed \cup now_eligible
           /\ c_status' = [a \in Addrs |-> IF a \in moved THEN "Reclaimed" ELSE saved[a]]
           /\ c_ripe' = c_ripe \ moved
    /\ c_found' = NoScan
    /\ c_pc' = "start"
    /\ UNCHANGED <<c_chain, h_pc, h_found, c_fetched>>
    /\ UNCHANGED CycleFrame

\* commands.rs 80-93: the /scan command of the chat bot, a scan from the
\* newest signature whatever the checkpoint
ChatScan(rpc_ok) ==
    /\ h_pc = "idle"
    /\ IF rpc_ok
       THEN LET scan == ScanAccounts(c_chain, 0, ChatBudget)
            IN  /\ h_found' = scan
                /\ c_fetched' = c_fetched \cup scan.fetched
                /\ h_pc' = "found"
       ELSE UNCHANGED <<h_found, c_fetched, h_pc>>
    /\ UNCHANGED <<c_chain, c_checkpoint, c_status, c_ripe, c_handed, c_pc, c_found,
                   c_base>>
    /\ UNCHANGED CycleFrame

\* commands.rs 96-126: the batch save and the checkpoint
ChatSave ==
    /\ h_pc = "found"
    /\ c_status' = save_accounts_batch(c_status, h_found.accounts)
    /\ c_checkpoint' = save_checkpoint(c_checkpoint, h_found.accounts)
    /\ c_base' = IF c_base = 0 /\ h_found.accounts # <<>>
                 THEN h_found.accounts[1].creation_signature ELSE c_base
    /\ h_found' = NoScan
    /\ h_pc' = "idle"
    /\ UNCHANGED <<c_chain, c_ripe, c_handed, c_pc, c_found, c_fetched>>
    /\ UNCHANGED CycleFrame

\* main.rs 1427-1470: the reset command, clear_checkpoints (db.rs 523-528)
ResetCheckpoints ==
    /\ c_checkpoint # NoCheckpoint
    /\ c_checkpoint' = NoCheckpoint
    /\ c_base' = 0
    /\ c_fetched' = {}
    /\ UNCHANGED <<c_chain, c_status, c_ripe, c_handed, c_pc, c_found, h_pc, h_found>>
    /\ UNCHANGED CycleFrame

NextCycle ==
    \/ \E a \in Addrs : OperatorSends(1, a)
    \/ \E a \in Addrs : Ripens(a)
    \/ \E rpc_ok \in BOOLEAN : AutoScanCycle(rpc_ok)
    \/ \E reclaim_ok \in BOOLEAN : AutoSave(reclaim_ok)
    \/ \E rpc_ok \in BOOLEAN : ChatScan(rpc_ok)
    \/ ChatSave
    \/ ResetCheckpoints

SpecCycle == InitCycle /\ [][NextCycle]_vars

\* the automated loop alone, every remote call answering, every cycle run
NextAutoCycles ==
    \/ \E n \in {1, AutoBudget}, a \in Addrs : OperatorSends(n, a)
    \/ \E a \in Addrs : Ripens(a)
    \/ AutoScanCycle(TRUE)
    \/ AutoSave(TRUE)

SpecAutoCycles ==
    /\ InitCycle
    /\ [][NextAutoCycles]_vars
    /\ WF_vars(AutoScanCycle(TRUE))
    /\ WF_vars(AutoSave(TRUE))

\* ------------------------------------------------------------ observations
Entries(op) == {i \in DOMAIN rpc_log : rpc_log[i].op = op}
Submits == Cardinality(Entries("send"))
Confirmed == {i \in Entries("send") : rpc_log[i].n = 1}
ZeroAmount == <<0, 0, 0, 0, 0, 0, 0, 0>>

\* the four SplToken preconditions, read off the fetched bytes
FetchedTokenOk ==
    /\ fetched.kind = "some"
    /\ fetched.acc.data.len >= 165
    /\ fetched.acc.data.amount = ZeroAmount
    /\ fetched.acc.data.state # 2
    /\ \/ fetched.acc.data.closeFlag = 1 /\ fetched.acc.data.closeAuth = signer
       \/ fetched.acc.data.closeFlag # 1 /\ fetched.acc.data.owner = signer

NotEligibleReturned == pc = "done" /\ result = ErrResult("NotEligible")

\* C1: with type SplToken a transaction is submitted only if the fetched data
\* is at least 165 bytes, the token amount is zero, the state is not frozen
\* and the authority check passes; when bytes were fetched and one of these
\* fails the call returns NotEligible and nothing is submitted.
C1_SplTokenPreconditions ==
    (pc # "idle" /\ account_type.tag = "SplToken") =>
        /\ (Submits > 0 \/ pc \in {"blockhash", "send"}) => FetchedTokenOk
        /\ (fetched.kind = "some" /\ ~FetchedTokenOk) =>
              (NotEligibleReturned /\ Submits = 0)

C1_Witness ==
    /\ account_type.tag = "SplToken"
    /\ FetchedTokenOk
    /\ Submits > 0

C3_EngineAgreesWithClassifier ==
    (pc # "idle" /\ account_type.tag = "SplToken"
       /\ fetched.kind = "some" /\ fetched.acc.lamports > 0
       /\ fetched.acc.data.len = 165
       /\ fetched.acc.data.amount = ZeroAmount
       /\ fetched.acc.data.state # 2) =>
        /\ (~NotEligibleReturned) <=> has_close_authority(fetched.acc, operator_pubkey)
        /\ instruction # NoInstruction =>
              /\ instruction.destination = treasury_wallet
              /\ instruction.authority = operator_pubkey

\* C7: a result carries a signature if and only if a transaction was
\* submitted and confirmed in that call; results for an absent account, for a
\* dry run and after a failed submission carry none.
C7_SignatureIffConfirmed ==
    pc = "done" =>
        /\ (result.ok /\ result.signature # NoSig) <=> (Confirmed # {})
        /\ \A i \in Confirmed :
              /\ i = Len(rpc_log)
              /\ result.ok
              /\ result.signature = rpc_log[i].sig
        /\ (fetched.kind = "none" \/ dry_run \/ ~result.ok) => result.signature = NoSig

C7_Witness ==
    /\ pc = "done"
    /\ result.ok
    /\ result.signature \in Sigs
    /\ Confirmed # {}

\* C8: a dry run fetches no blockhash and submits nothing; when every
\* precondition passes it returns no signature, dryRun = true and the live
\* balance as amount; a failed precondition is still NotEligible.
C8_DryRun ==
    dry_run =>
        /\ Entries("get_latest_blockhash") = {}
        /\ Submits = 0
        /\ (pc = "done" /\ fetched.kind = "some") =>
              IF fetched.acc.lamports > 0 /\ account_type.tag = "SplToken"
                 /\ FetchedTokenOk
              THEN result = [ok |-> TRUE, err |-> "none", signature |-> NoSig,
                             amount_reclaimed |-> fetched.acc.lamports,
                             account |-> account_pubkey, dry_run |-> TRUE]
              ELSE result = ErrResult("NotEligible")

C8_Witness ==
    /\ dry_run
    /\ pc = "done"
    /\ result.ok
    /\ result.dry_run
    /\ result.amount_reclaimed > 0

\* C9 as stated: an absent account and a zero balance both give a non-error
\* result with amount 0 and no signature, and nothing is submitted.
C9_AbsentOrZeroIsNonError ==
    (pc = "done"
       /\ (fetched.kind = "none"
            \/ (fetched.kind = "some" /\ fetched.acc.lamports = 0))) =>
        /\ result.ok
        /\ result.amount_reclaimed = 0
        /\ result.signature = NoSig
        /\ Submits = 0

\* C9 amended: an absent account gives a non-error result with amount 0 and
\* no signature; an account that exists with zero balance gives the error
\* NotEligible; nothing is submitted in either case.
C9_AbsentOkZeroNotEligible ==
    pc = "done" =>
        /\ fetched.kind = "none" =>
              /\ result.ok
              /\ result.amount_reclaimed = 0
              /\ result.signature = NoSig
              /\ result.account = account_pubkey
              /\ Submits = 0
        /\ (fetched.kind = "some" /\ fetched.acc.lamports = 0) =>
              /\ result = ErrResult("NotEligible")
              /\ Submits = 0

C9_Witness ==
    /\ pc = "done"
    /\ fetched.kind = "some"
    /\ fetched.acc.lamports = 0
    /\ ~result.ok

\* the position of send i among the sends of the call
SendRank(i) == Cardinality({j \in Entries("send") : j <= i})

\* C10: at most 3 submission attempts; a confirmed attempt is the last; the
\* k-th failed attempt is followed by a sleep of 2^k seconds for k = 1, 2; the
\* third failure is followed by no sleep and the last error is returned; the
\* read-only calls of the call are made once.
C10_RetryBound ==
    /\ Submits <= 3
    /\ \A i \in Entries("send") :
          /\ rpc_log[i].n = 1 => (i = Len(rpc_log) /\ pc = "done")
          /\ (rpc_log[i].n = 0 /\ SendRank(i) < 3) =>
                /\ i < Len(rpc_log)
                /\ rpc_log[i + 1].op = "sleep"
                /\ rpc_log[i + 1].n = 2 ^ SendRank(i)
          /\ (rpc_log[i].n = 0 /\ SendRank(i) = 3) =>
                /\ i = Len(rpc_log)
                /\ pc = "done"
                /\ result = ErrResult("SolanaRpc")
    /\ \A i \in Entries("sleep") : i > 1 /\ rpc_log[i - 1].op = "send"
    /\ Cardinality(Entries("get_account")) <= 1
    /\ Cardinality(Entries("get_latest_blockhash")) <= 1

C10_Witness ==
    /\ pc = "done"
    /\ Submits = 3
    /\ Confirmed = {}
    /\ Cardinality(Entries("sleep")) = 2

\* ------------------------------------------------------------ observations
Checked == e_pc = "done"
CheckedAccount == check.env.acct.acc
Window == min_inactive_days * 86400

\* C5: is_eligible is true only for an existing account with nonzero balance
\* whose type is SplToken and whose close authority (or, when none is set,
\* owner) is the operator; it is false for every System and Other account.
C5_OnlyOperatorTokenAccounts ==
    Checked =>
        /\ check.result = "true" =>
              /\ check.env.acct.kind = "some"
              /\ CheckedAccount.lamports > 0
              /\ CheckedAccount.owner = SplTokenProgram
              /\ CheckedAccount.data.len = 165
              /\ \/ /\ CheckedAccount.data.closeFlag = 1
                    /\ CheckedAccount.data.closeAuth = operator_pubkey
                 \/ /\ CheckedAccount.data.closeFlag # 1
                    /\ CheckedAccount.data.owner = operator_pubkey
        /\ (check.env.acct.kind = "some"
             /\ (CheckedAccount.owner # SplTokenProgram
                 \/ CheckedAccount.data.len # 165)) =>
              check.result = "false"

C5_Witness ==
    /\ Checked
    /\ check.result = "true"
    /\ CheckedAccount.data.closeFlag = 1
    /\ CheckedAccount.data.closeAuth = operator_pubkey

\* C6 as stated: true only if the time since creation exceeds the window and
\* the most recent activity is older than the window.
C6_ElapsedExceedsWindow ==
    (Checked /\ check.result = "true") =>
        /\ check.env.now - check.created_at > Window
        /\ check.env.sigs.kind = "sig_with_time" =>
              check.env.now2 - check.env.sigs.t > Window

\* C6 amended: true only if the time since creation is at least the window
\* and the newest signature of the account, when it has a block time, is
\* older than the window; a failed signature lookup never gives true.
C6_ElapsedAtLeastWindow ==
    (Checked /\ check.result = "true") =>
        /\ check.env.now - check.created_at >= Window
        /\ check.env.sigs.kind \in {"empty", "sig_no_time", "sig_with_time"}
        /\ check.env.sigs.kind = "sig_with_time" =>
              check.env.now2 - check.env.sigs.t > Window

C6_Witness ==
    /\ Checked
    /\ check.result = "true"
    /\ min_inactive_days > 0
    /\ check.env.now - check.created_at = Window
    /\ check.env.sigs.kind = "sig_with_time"

\* C4: is_eligible answers false for an address on the whitelist or on the
\* blacklist, whatever the remote side answers, and the automated loop never
\* puts such an address in the list it gives to the batch processor.
C4_ListedNeverEligible ==
    /\ answer.pubkey \in (whitelist \cup blacklist) => answer.result = "false"
    /\ \A i \in DOMAIN eligible : eligible[i][1] \notin (whitelist \cup blacklist)
    /\ \A i \in DOMAIN handed : handed[i][1] \notin (whitelist \cup blacklist)

C4_Witness ==
    /\ handed # <<>>
    /\ \E i \in DOMAIN sponsored_accounts :
          sponsored_accounts[i].pubkey \in (whitelist \cup blacklist)

\* ---------------------------------------------------- discovery claims
DiscReturned == d_pc \in {"done", "saved"} /\ d_result.kind = "ok"

\* the creation instructions of the signatures the run went through, in scan
\* order: signatures newest first, instructions in transaction order
RECURSIVE FlatCreations(_, _)
FlatCreations(entries, i) ==
    IF i > Len(entries) THEN <<>>
    ELSE LET tx == entries[i].tx
             here == IF tx.sig_err \/ tx.fetch # "some" THEN <<>>
                     ELSE parse_transaction_for_creations(tx, entries[i].pos).creations
         IN  here \o FlatCreations(entries, i + 1)

ScannedCreations ==
    FlatCreations(SelectSeq(history.marked, LAMBDA e : e.pos <= total_fetched), 1)

FirstIndexOf(seq, pubkey) ==
    CHOOSE i \in DOMAIN seq :
        /\ seq[i].pubkey = pubkey
        /\ \A j \in 1..(i - 1) : seq[j].pubkey # pubkey

\* C11: the list a run returns holds each address at most once, and the
\* record of an address is the one of the first creation instruction met in
\* scan order; a later creation instruction naming it changes nothing.
C11_FirstDiscoveryWins ==
    DiscReturned =>
        /\ \A i, j \in DOMAIN d_result.accounts :
              d_result.accounts[i].pubkey = d_result.accounts[j].pubkey => i = j
        /\ \A i \in DOMAIN d_result.accounts :
              LET r == d_result.accounts[i]
              IN  /\ \E k \in DOMAIN ScannedCreations : ScannedCreations[k].pubkey = r.pubkey
                  /\ r = ScannedCreations[FirstIndexOf(ScannedCreations, r.pubkey)]

C11_Witness ==
    /\ DiscReturned
    /\ \E i, j \in DOMAIN ScannedCreations :
          /\ i < j
          /\ ScannedCreations[i].pubkey = ScannedCreations[j].pubkey
          /\ ScannedCreations[i] # ScannedCreations[j]
          /\ ScannedCreations[i].creation_signature # ScannedCreations[j].creation_signature

RECURSIVE RequestedBefore(_)
RequestedBefore(i) ==
    IF i <= 1 THEN 0 ELSE RequestedBefore(i - 1) + requests[i - 1].n

\* C12: every page request asks for min(1000, budget - fetched so far)
\* signatures with the cursor at the last signature of the page before, the
\* total fetched never exceeds the budget, and no request follows an empty
\* page, a short page or the exhaustion of the budget.
C12_PagingWithinBudget ==
    /\ total_fetched <= max_signatures
    /\ RequestedBefore(Len(requests) + 1) <= max_signatures
    /\ \A i \in DOMAIN requests :
          /\ requests[i].limit =
                (IF 1000 < max_signatures - RequestedBefore(i)
                 THEN 1000 ELSE max_signatures - RequestedBefore(i))
          /\ requests[i].limit >= 1
          /\ requests[i].n <= requests[i].limit
          /\ requests[i].before = (IF i = 1 THEN 0 ELSE requests[i - 1].last)
          /\ i < Len(requests) =>
                /\ requests[i].n = requests[i].limit
                /\ RequestedBefore(i + 1) < max_signatures
    /\ (d_pc = "loop" /\ requests # <<>>) =>
          /\ requests[Len(requests)].n = requests[Len(requests)].limit
          /\ total_fetched < max_signatures

C12_Witness ==
    /\ DiscReturned
    /\ Len(requests) = 2
    /\ requests[1].limit = 1000
    /\ requests[2].limit = 1
    /\ requests[2].n = 1
    /\ total_fetched = max_signatures

AddressSet(res) == { res.accounts[i].pubkey : i \in DOMAIN res.accounts }

\* C13: two runs with the same budget over the same history return the same
\* addresses, none twice, and every creation in the scanned range is in them.
C13_DiscoveryIdempotent ==
    (d_run = 2 /\ DiscReturned /\ d_first.kind = "ok") =>
        /\ AddressSet(d_result) = AddressSet(d_first)
        /\ Cardinality(AddressSet(d_result)) = Len(d_result.accounts)
        /\ Cardinality(AddressSet(d_first)) = Len(d_first.accounts)
        /\ \A k \in DOMAIN ScannedCreations :
              ScannedCreations[k].pubkey \in AddressSet(d_result)

C13_Witness ==
    /\ d_run = 2
    /\ DiscReturned
    /\ d_first.kind = "ok"
    /\ Cardinality(AddressSet(d_result)) = 2
    /\ Len(requests) = 2

TxAt(pos) ==
    (CHOOSE e \in { history.marked[i] : i \in DOMAIN history.marked } : e.pos = pos).tx

\* C14: an account found in a transaction whose block time is absent or not
\* positive gets the creation time 1600000000 + (slot * 400) / 1000, which
\* depends on the slot only.
C14_SlotEstimate ==
    \A i \in DOMAIN all_sponsored :
        LET r == all_sponsored[i]
            tx == TxAt(r.creation_signature)
        IN  (tx.block_time.kind = "none" \/ tx.block_time.v <= 0) =>
               /\ r.creation_slot = tx.slot
               /\ r.creation_time = 1600000000 + ((tx.slot * 400) \div 1000)

C14_Witness ==
    \E i \in DOMAIN all_sponsored :
        /\ TxAt(all_sponsored[i].creation_signature).block_time.kind = "none"
        /\ all_sponsored[i].creation_slot = 3
        /\ all_sponsored[i].creation_time = 1600000001

\* the stored record r is the one of an spl-token initializeAccount instruction
FromTokenInit(r) ==
    \E i \in DOMAIN history.marked :
        LET e == history.marked[i]
        IN  \E k \in DOMAIN e.tx.instructions :
               LET f == parse_token_init(e.tx.instructions[k], e.pos, e.tx.slot,
                                         CreationTime(e.tx.slot, e.tx.block_time))
               IN  /\ e.tx.instructions[k].program = "spl-token"
                   /\ f.kind = "some"
                   /\ StoredAccount(f.info) = r

\* C15: for an account found through spl-token initializeAccount the rent
\* value stored is the balance a direct query of the account gives.
C15_RentFromBalanceQuery ==
    \A i \in DOMAIN db_accounts :
        FromTokenInit(db_accounts[i]) =>
            db_accounts[i].rent_lamports = chain[db_accounts[i].pubkey].acc.lamports

\* C16: a malformed signature or address makes the run skip that item only:
\* when every remote call succeeded the run returns its list.
C16_MalformedItemSkipped ==
    (/\ d_pc \in {"done", "saved"}
     /\ \A i \in DOMAIN requests : requests[i].ok
     /\ \A i \in DOMAIN history.marked : history.marked[i].tx.fetch # "err") =>
        d_result.kind = "ok"

\* C17: with the account, the creation time, the last activity and the clock
\* fixed, an account that is eligible with window W is eligible with every
\* shorter window. (The windows are below 2^63 days, where the conversion of
\* min_inactive_days to i64 changes nothing.)
C17_MonotoneInWindow ==
    (Checked /\ check.result = "true") =>
        \A w \in 0..(min_inactive_days - 1) :
            is_eligible(EligConfig(whitelist, blacklist, w, operator_pubkey),
                        check.pubkey, check.created_at, check.env) = "true"

C17_Witness ==
    /\ Checked
    /\ check.result = "true"
    /\ min_inactive_days = 1
    /\ check.env.sigs.kind = "sig_with_time"
    /\ is_eligible(EligConfig(whitelist, blacklist, 0, operator_pubkey),
                   check.pubkey, check.created_at, check.env) = "true"

\* C18 as stated: the strategy is ActiveReclaim, with the operator as authority, only
\* for an existing SplToken account with nonzero balance whose authority is
\* the operator; PassiveMonitoring, with the actual authority, for an SplToken
\* account whose authority is someone else; Unrecoverable for a System
\* account; Unknown for an absent account and for an Other account.
C18_StrategyFollowsEligibilityRules ==
    s_pc = "done" =>
        LET acc == strategy.resp.acc
            token == acc.owner = SplTokenProgram /\ acc.data.len = 165
            authority == IF acc.data.closeFlag = 1 THEN acc.data.closeAuth
                         ELSE acc.data.owner
        IN  /\ strategy.label = "ActiveReclaim" =>
                  /\ strategy.resp.kind = "some"
                  /\ acc.lamports > 0
                  /\ token
                  /\ authority = operator_pubkey
                  /\ strategy.authority = operator_pubkey
            /\ strategy.label = "PassiveMonitoring" =>
                  /\ strategy.resp.kind = "some"
                  /\ token
                  /\ authority # operator_pubkey
                  /\ strategy.authority = authority
            /\ strategy.label = "Unrecoverable" =>
                  strategy.resp.kind = "some" /\ acc.owner = SystemProgram
            /\ strategy.label = "Unknown" =>
                  \/ strategy.resp.kind = "none"
                  \/ strategy.resp.kind = "some" /\ acc.owner # SystemProgram /\ ~token

\* C18 amended: the balance plays no part. The strategy is ActiveReclaim,
\* with the operator as authority, exactly for an existing account of type
\* SplToken whose authority is the operator, a zero balance included;
\* PassiveMonitoring, with the actual authority, exactly for an SplToken
\* account whose authority is someone else; Unrecoverable exactly for an
\* existing account owned by the system program; Unknown exactly for an
\* absent account and for every other existing account.
C18_StrategyByTypeAndAuthority ==
    s_pc = "done" =>
        LET acc == strategy.resp.acc
            exists == strategy.resp.kind = "some"
            token == acc.owner = SplTokenProgram /\ acc.data.len = 165
            authority == IF acc.data.closeFlag = 1 THEN acc.data.closeAuth
                         ELSE acc.data.owner
        IN  /\ strategy.label = "err" <=> strategy.resp.kind = "err"
            /\ strategy.label = "ActiveReclaim" <=>
                  (exists /\ token /\ authority = operator_pubkey)
            /\ strategy.label = "ActiveReclaim" => strategy.authority = operator_pubkey
            /\ strategy.label = "PassiveMonitoring" <=>
                  (exists /\ token /\ authority # operator_pubkey)
            /\ strategy.label = "PassiveMonitoring" => strategy.authority = authority
            /\ strategy.label = "Unrecoverable" <=>
                  (exists /\ ~token /\ acc.owner = SystemProgram)
            /\ strategy.label = "Unknown" <=>
                  \/ strategy.resp.kind = "none"
                  \/ exists /\ ~token /\ acc.owner # SystemProgram
            /\ strategy.label \in {"Unknown", "Unrecoverable", "err"} =>
                  strategy.authority = "none"

C18_Witness ==
    /\ s_pc = "done"
    /\ strategy.label = "ActiveReclaim"
    /\ strategy.resp.acc.lamports = 0
    /\ strategy.resp.acc.data.closeFlag = 1

\* C19: every later decision uses the type discovery recorded for the
\* address: since the classifier accepts SplToken accounts only, an account
\* it declares eligible in the automated loop has the recorded type SplToken.
C19_RecordedTypeUsed ==
    \A i \in DOMAIN eligible : eligible[i][2].tag = "SplToken"

\* the account at position i of the batch fails a reclaim precondition
PreconditionFails(i) ==
    LET a == accounts[i]
    IN  /\ chain[a[1]].kind = "some"
        /\ ReclaimPrecheck(a[1], a[2], chain[a[1]], treasury_wallet, signer,
                           dry_run).res = ErrResult("NotEligible")

\* some account of the batch failed on a remote call
RpcFailed ==
    \E i \in DOMAIN summary.results : summary.results[i].result.err = "SolanaRpc"

OneBadAccount ==
    /\ b_pc = "done"
    /\ Cardinality({ i \in DOMAIN accounts : PreconditionFails(i) }) = 1
    /\ ~RpcFailed

\* C20: when exactly one account of a batch of N fails, and it fails a
\* reclaim precondition, the summary counts N-1 successes and 1 failure, holds
\* one result per account in the order of the batch (so the accounts after
\* the failing one were processed, and succeeded), and no two successes carry
\* the same signature.
C20_PartialFailureIsolated ==
    OneBadAccount =>
        LET N == Len(accounts)
            R == summary.results
            bad == CHOOSE i \in DOMAIN accounts : PreconditionFails(i)
        IN  /\ summary.total_accounts = N
            /\ summary.successful = N - 1
            /\ summary.failed = 1
            /\ Len(R) = N
            /\ \A i \in 1..N :
                  /\ i <= Len(R)
                  /\ R[i].pubkey = accounts[i][1]
                  /\ R[i].result.ok <=> (i # bad)
            /\ \A i, j \in DOMAIN R :
                  (/\ i # j
                   /\ R[i].result.ok
                   /\ R[j].result.ok
                   /\ R[i].result.signature = R[j].result.signature)
                  => R[i].result.signature = NoSig

\* a live batch of three in chunks of two, the first account failing, the two
\* after it closed with a signature each
C20_Witness ==
    /\ OneBadAccount
    /\ ~dry_run
    /\ Len(accounts) = 3
    /\ batch_size = 2
    /\ PreconditionFails(1)
    /\ Len(summary.results) = 3
    /\ \A i \in {2, 3} : /\ summary.results[i].result.ok
                         /\ summary.results[i].result.signature # NoSig

RECURSIVE SumReclaimed(_, _)
\* the sum of amount_reclaimed over the successful results from position i on
SumReclaimed(res, i) ==
    IF i > Len(res) THEN 0
    ELSE (IF res[i].result.ok THEN res[i].result.amount_reclaimed ELSE 0)
         + SumReclaimed(res, i + 1)

\* C21: reclaim_all_eligible never raises: whatever the list and the chunk
\* size, it does not panic, and the summary it returns has
\* successful + failed = total_accounts = number of results and
\* total_reclaimed = the sum of the amounts of the successful results.
C21_NeverRaises ==
    /\ b_pc # "panicked"
    /\ b_pc = "done" =>
          /\ summary.successful + summary.failed = summary.total_accounts
          /\ summary.total_accounts = Len(summary.results)
          /\ summary.total_reclaimed = SumReclaimed(summary.results, 1)

\* how many entries of the log of the run are op events for pubkey
Logged(op, pubkey) ==
    Cardinality({ i \in DOMAIN b_log : b_log[i] = BatchEvent(op, pubkey) })

RECURSIVE ExpectedLog(_, _, _)
\* the waits, engine calls and sleeps of a run over accts in chunks of c, from
\* chunk j on: a wait, the calls of the chunk in input order, and a sleep
\* unless the chunk is the last
ExpectedLog(accts, c, j) ==
    LET n == Len(accts)
        m == (n + c - 1) \div c
        first == (j - 1) * c + 1
        last == IF j * c < n THEN j * c ELSE n
    IN  IF j > m THEN <<>>
        ELSE <<BatchEvent("wait", "none")>>
             \o [k \in 1..(last - first + 1) |-> BatchEvent("reclaim", accts[first + k - 1][1])]
             \o (IF j < m THEN <<BatchEvent("sleep", "none")>> ELSE <<>>)
             \o ExpectedLog(accts, c, j + 1)

NotSend(e) == e.op # "send"

\* C23: a run over n accounts in chunks of c goes through ceil(n/c) chunks in
\* input order, awaits the rate limiter before each, and sleeps the delay
\* after each chunk but the last: ceil(n/c) - 1 delays when n > 0.
C23_ChunksWaitsDelays ==
    (b_pc = "done" /\ batch_size > 0) =>
        /\ SelectSeq(b_log, NotSend) = ExpectedLog(accounts, batch_size, 1)
        /\ LET m == (Len(accounts) + batch_size - 1) \div batch_size
           IN  /\ Logged("wait", "none") = m
               /\ Len(accounts) > 0 => Logged("sleep", "none") = m - 1

\* three accounts in chunks of one: three chunks, two delays
C23_Witness ==
    /\ b_pc = "done"
    /\ Len(accounts) = 3
    /\ batch_size = 1
    /\ Logged("wait", "none") = 3
    /\ Logged("sleep", "none") = 2

\* ------------------------------------------------- treasury observations
TreasuryChecked == t_pc = "done" /\ t_result.kind = "ok" /\ t_call.read
Increase == t_call.current - t_call.last

\* the row the store holds for an address
StoredRows(db, pubkey) == { db[k] : k \in { j \in DOMAIN db : db[j].pubkey = pubkey } }

\* C24: a balance read that is equal to or lower than the recorded balance
\* is persisted as the recorded balance, no passive reclaim is returned and
\* no account record changes.
C24_NoIncreaseOnlyPersists ==
    (TreasuryChecked /\ t_call.current <= t_call.last) =>
        /\ last_balance = t_call.current
        /\ t_result.reclaims = <<>>
        /\ t_db = t_call.before

\* a lower balance read over a store that holds accounts
C24_Witness ==
    /\ TreasuryChecked
    /\ t_call.current < t_call.last
    /\ t_db # <<>>
    /\ last_balance = t_call.current

\* C25: a record with confidence High names exactly one address, that of a
\* Closed account whose recorded rent is within 5,000 lamports of the observed
\* increase; and when the increase is within 5,000 lamports of the rent of a
\* recently closed account, exactly one record is returned and it is High.
C25_HighWithinTolerance ==
    (TreasuryChecked /\ t_call.current > t_call.last) =>
        /\ \A i \in DOMAIN t_result.reclaims :
              t_result.reclaims[i].confidence = "High" =>
                 /\ Len(t_result.reclaims[i].attributed_accounts) = 1
                 /\ \E r \in StoredRows(t_db, t_result.reclaims[i].attributed_accounts[1]) :
                       /\ r.status = "Closed"
                       /\ AbsDiff(r.rent_lamports, Increase) <= Tolerance
        /\ (\E k \in DOMAIN t_call.before :
               /\ t_call.before[k].status = "Closed"
               /\ t_call.before[k].recent
               /\ AbsDiff(t_call.before[k].rent_lamports, Increase) <= Tolerance)
           => /\ Len(t_result.reclaims) = 1
              /\ t_result.reclaims[1].confidence = "High"

\* an increase 5,000 lamports above the rent of a recently closed account
C25_Witness ==
    /\ TreasuryChecked
    /\ t_call.current > t_call.last
    /\ Len(t_result.reclaims) = 1
    /\ t_result.reclaims[1].confidence = "High"
    /\ \E r \in StoredRows(t_call.before, t_result.reclaims[1].attributed_accounts[1]) :
          /\ r.status = "Closed"
          /\ Increase = r.rent_lamports + Tolerance

\* the sum of the rents of the accounts at the given positions
RentSum(accts, positions) ==
    LET n == Len(positions)
    IN  (IF n >= 1 THEN accts[positions[1]].rent_lamports ELSE 0)
        + (IF n >= 2 THEN accts[positions[2]].rent_lamports ELSE 0)
        + (IF n >= 3 THEN accts[positions[3]].rent_lamports ELSE 0)

\* the strictly increasing tuples of 2 or 3 positions of a list
Combinations(n) ==
    { p \in (1..n) \X (1..n) : p[1] < p[2] }
    \cup { p \in (1..n) \X (1..n) \X (1..n) : p[1] < p[2] /\ p[2] < p[3] }

\* C26: match_amount_to_accounts returns exactly one record, its amount is
\* the increase, and its confidence is the highest level that applies: High
\* with one account whose rent is within tolerance, else Medium with the 2 or
\* 3 accounts of a pair or triple that sums within tolerance, else Low with at
\* most 5 accounts of a non-empty list, else Unknown with none.
C26_HighestConfidence ==
    m_pc = "done" =>
        LET accts == m_in.closed_accounts
            delta == m_in.increase
            single == { i \in DOMAIN accts : AbsDiff(accts[i].rent_lamports, delta) <= Tolerance }
            combos == { p \in Combinations(Len(accts)) :
                          AbsDiff(RentSum(accts, p), delta) <= Tolerance }
        IN  /\ Len(m_out) = 1
            /\ m_out[1].amount = delta
            /\ m_out[1].confidence =
                  IF single # {} THEN "High"
                  ELSE IF combos # {} THEN "Medium"
                  ELSE IF accts # <<>> THEN "Low"
                  ELSE "Unknown"
            /\ m_out[1].confidence = "High" =>
                  \E i \in single : m_out[1].attributed_accounts = <<accts[i].pubkey>>
            /\ m_out[1].confidence = "Medium" =>
                  \E p \in combos :
                     m_out[1].attributed_accounts = [k \in DOMAIN p |-> accts[p[k]].pubkey]
            /\ m_out[1].confidence = "Low" =>
                  /\ Len(m_out[1].attributed_accounts) <= LikelyAccounts
                  /\ \A k \in DOMAIN m_out[1].attributed_accounts :
                        \E i \in DOMAIN accts : m_out[1].attributed_accounts[k] = accts[i].pubkey
            /\ m_out[1].confidence = "Unknown" => m_out[1].attributed_accounts = <<>>

\* no single account and no pair matches, a triple does
C26_Witness ==
    /\ m_pc = "done"
    /\ Len(m_out) = 1
    /\ m_out[1].confidence = "Medium"
    /\ Len(m_out[1].attributed_accounts) = 3

\* C27: every address a passive reclaim record attributes belongs to an
\* account the store holds as Closed when the record is returned, and the
\* amount of the record is the observed increase, current balance minus last
\* recorded balance.
C27_AttributedClosedAmountDelta ==
    TreasuryChecked =>
        \A i \in DOMAIN t_result.reclaims :
            /\ t_result.reclaims[i].amount = Increase
            /\ \A k \in DOMAIN t_result.reclaims[i].attributed_accounts :
                  \E r \in StoredRows(t_db, t_result.reclaims[i].attributed_accounts[k]) :
                     r.status = "Closed"

\* a record attributed to an account that was Active when the call began,
\* with an amount that is not that account's rent
C27_Witness ==
    /\ TreasuryChecked
    /\ Len(t_result.reclaims) = 1
    /\ \E r \in StoredRows(t_call.before, t_result.reclaims[1].attributed_accounts[1]) :
          /\ r.status = "Active"
          /\ r.rent_lamports # t_result.reclaims[1].amount

\* the candidates the probe found closed, as rows of the store before the call
FoundClosed ==
    LET Gone(q) == q[2] \in {"none", "zero"}
        gone == SelectSeq(t_call.probed, Gone)
    IN  [k \in DOMAIN gone |-> CHOOSE r \in StoredRows(t_call.before, gone[k][1]) : TRUE]

\* what the probe did, given when it may run and which answers count as closed
ProbeRule(may_run, closed_answers) ==
    (TreasuryChecked /\ t_call.current > t_call.last) =>
        /\ t_call.probed # <<>> => may_run
        /\ \A k \in DOMAIN t_call.probed :
              \E r \in StoredRows(t_call.before, t_call.probed[k][1]) :
                 /\ r.status = "Active"
                 /\ AbsDiff(r.rent_lamports, Increase) <= ProbeTolerance
        /\ \A j \in DOMAIN t_call.before :
              LET was == t_call.before[j]
                  now == CHOOSE r \in StoredRows(t_db, was.pubkey) : TRUE
              IN  IF \E k \in DOMAIN t_call.probed :
                        /\ t_call.probed[k][1] = was.pubkey
                        /\ t_call.probed[k][2] \in closed_answers
                  THEN now.status = "Closed"
                  ELSE now = was
        /\ t_result.reclaims =
              IF FoundClosed # <<>>
              THEN match_amount_to_accounts(Increase,
                       get_recently_closed_accounts(t_call.before) \o FoundClosed)
              ELSE t_call.first

\* C28 as stated: the probe of the still-Active accounts runs only when the
\* first matching found neither an exact nor a pair/triple match; it sets to
\* Closed only the Active candidates (rent within tolerance of the increase)
\* found absent on chain, and the matching is retried over the enlarged list.
C28_ProbeOnlyAfterNoMatch ==
    ProbeRule(\A i \in DOMAIN t_call.first :
                  t_call.first[i].confidence \notin {"High", "Medium"},
              {"none"})

\* C28, amended: the probe runs whenever the first matching found no exact
\* single-account match, also after a pair/triple match; it queries the Active
\* accounts with rent within tolerance of the increase, sets to Closed exactly
\* those that are absent or hold zero lamports and changes no other record,
\* and when one was found closed the matching is retried over the recently
\* closed accounts followed by them.
C28_ProbeAfterNoExactMatch ==
    ProbeRule(\A i \in DOMAIN t_call.first : t_call.first[i].confidence # "High",
              {"none", "zero"})

\* a pair matched first, then a probed candidate was found absent
C28_Witness ==
    /\ TreasuryChecked
    /\ t_call.current > t_call.last
    /\ \E i \in DOMAIN t_call.first : t_call.first[i].confidence = "Medium"
    /\ FoundClosed # <<>>
    /\ t_result.reclaims # t_call.first

\* C29: a cycle of the automated mode in which nothing failed goes through
\* scan, classify, reclaim, reconcile in that order before it sleeps, also
\* when no account is eligible.
C29_StagesInOrder ==
    (a_pc = "sleep" /\ \A k \in DOMAIN stages : stages[k] # "failed") =>
        stages = <<"scan", "classify", "reclaim", "reconcile">>

\* C30: no failure of a stage ends the automated loop.
C30_LoopNeverExits == a_pc # "exited"

\* C34: lamports the batch processor moved into the treasury since the last
\* check are not reported as a passive reclaim: no record of the next check
\* has an amount above the increase that is left without them.
C34_OwnReclaimNotPassive ==
    (TreasuryChecked /\ t_call.own > 0) =>
        \A i \in DOMAIN t_result.reclaims :
            t_result.reclaims[i].amount <= Increase - t_call.own

\* C37: with no treasury balance recorded the balance read becomes the
\* recorded balance and no passive reclaim is reported.
C37_FirstBalanceIsBaseline ==
    (TreasuryChecked /\ t_call.stored = NoBalance) =>
        /\ last_balance = t_call.current
        /\ t_result.reclaims = <<>>

\* C38: for the same address, creation time, configuration and answers of
\* the remote side, the reason of get_eligibility_reason begins with
\* "Eligible" exactly when is_eligible answers true, and the one raises
\* exactly when the other does.
C38_ReasonAgreesWithAnswer ==
    e_pc = "explained" =>
        /\ check.reason[1] = "Eligible" <=> check.result = "true"
        /\ check.reason = ReasonErr <=> check.result = "err"

\* an account that is not empty and holds no more than twice the minimum is
\* reported eligible by both
C38_Witness ==
    /\ e_pc = "explained"
    /\ check.result = "true"
    /\ check.reason = Reason("Eligible", "for reclaim: minimal balance")

\* ------------------------------------------------- cursor observations
CreatingSigs == { SigAt(c_chain, c_chain.marked[k].pos) : k \in DOMAIN c_chain.marked }

\* C31: the stored cursor only moves forward: a step that leaves a cursor
\* in the store leaves one that is not older, in signature and in slot,
\* than the one before; only clear_checkpoints empties it.
C31_CursorMonotone ==
    [][ /\ c_checkpoint' # NoCheckpoint =>
              /\ c_checkpoint'.sig >= c_checkpoint.sig
              /\ c_checkpoint'.slot >= c_checkpoint.slot
        /\ (c_checkpoint # NoCheckpoint /\ c_checkpoint' = NoCheckpoint) =>
              (c_base' = 0 /\ UNCHANGED <<c_pc, h_pc>>) ]_vars

\* C33: the stored status of an address never goes from Reclaimed back to
\* Active.
C33_ReclaimedStaysReclaimed ==
    [][ \A a \in Addrs : c_status[a] = "Reclaimed" => c_status'[a] = "Reclaimed" ]_vars

\* C35: an account the store holds as Active that has come to satisfy every
\* eligibility condition is given to the batch processor by some later cycle.
C35_EligibleLaterIsHanded ==
    \A a \in Addrs : (c_status[a] = "Active" /\ a \in c_ripe) ~> (a \in c_handed)

\* C36: the cursor is never moved past a creating transaction that is newer
\* than the first cursor stored and that no scan has fetched.
C36_NoCreationSkipped ==
    c_base # 0 =>
        \A sig \in CreatingSigs :
            (c_base < sig /\ sig < c_checkpoint.sig) => sig \in c_fetched

\* ---------------------------------------------------------- Rate Limiter
\* utils.rs 31-36: RateLimiter::new(delay_ms), shared by the callers
InitLimiter ==
    /\ operator_pubkey = "K1"
    /\ signer = "K1"
    /\ treasury_wallet = "K1"
    /\ dry_run = FALSE
    /\ whitelist = {}
    /\ blacklist = {}
    /\ min_inactive_days = 0
    /\ EngineIdle
    /\ EligIdle
    /\ AutoIdle
    /\ DiscIdle
    /\ StratIdle
    /\ BatchIdle
    /\ TreasIdle
    /\ CycleIdle
    /\ clock = 0
    /\ delay \in 1..MaxDelay
    /\ last_call = NoInstant
    /\ w_pc = [c \in Callers |-> "out"]
    /\ remaining = [c \in Callers |-> 0]
    /\ slept_from = [c \in Callers |-> 0]
    /\ returns = <<>>

LimiterFrame == <<cfgVars, engineVars, eligVars, autoVars, discVars, stratVars,
                  batchVars, treasVars, cycleVars>>

\* time passes
Tick ==
    /\ clock < MaxClock
    /\ clock' = clock + 1
    /\ UNCHANGED <<delay, last_call, w_pc, remaining, slept_from, returns>>
    /\ UNCHANGED LimiterFrame

\* utils.rs 40-56: the block that holds the lock; the caller either returns
\* at once or leaves the block with the time it has to sleep
WaitLocked(c) ==
    /\ w_pc[c] = "out"
    /\ Len(returns) < MaxReturns
    /\ IF last_call # NoInstant /\ clock - last_call < delay
       THEN /\ remaining' = [remaining EXCEPT ![c] = delay - (clock - last_call)]
            /\ slept_from' = [slept_from EXCEPT ![c] = clock]
            /\ w_pc' = [w_pc EXCEPT ![c] = "sleeping"]
            /\ UNCHANGED <<last_call, returns>>
       ELSE /\ last_call' = clock
            /\ returns' = Append(returns, clock)
            /\ UNCHANGED <<w_pc, remaining, slept_from>>
    /\ UNCHANGED <<clock, delay>>
    /\ UNCHANGED LimiterFrame

\* utils.rs 59-64: the sleep is over, the caller takes the lock again, sets
\* last_call to the present instant and returns
WaitSlept(c) ==
    /\ w_pc[c] = "sleeping"
    /\ clock >= slept_from[c] + remaining[c]
    /\ last_call' = clock
    /\ returns' = Append(returns, clock)
    /\ w_pc' = [w_pc EXCEPT ![c] = "out"]
    /\ UNCHANGED <<clock, delay, remaining, slept_from>>
    /\ UNCHANGED LimiterFrame

NextLimiter ==
    \/ Tick
    \/ \E c \in Callers : WaitLocked(c)
    \/ \E c \in Callers : WaitSlept(c)

SpecLimiter == InitLimiter /\ [][NextLimiter]_vars

\* C32: any two returns of wait() of one RateLimiter are at least its delay
\* apart in time, also when several callers await it at once
C32_MinimumSpacing ==
    \A i, j \in DOMAIN returns :
        i < j => returns[j] - returns[i] >= delay

====
